---- MODULE Spec2Model ----
(***************************************************************************)
(* Verification model of the bind-dyndb-ldap synchronisation core          *)
(* (src/src/ldap_helper.c, zone_register.c, ldap_convert.c, zone.c).       *)
(*                                                                         *)
(* The module holds several state machines over one set of variables:      *)
(*   SpecPool   - the LDAP connection pool (semaphore + per-connection     *)
(*                mutex), ldap_pool_getconnection/ldap_pool_putconnection  *)
(*   SpecTask   - syncrepl_update dispatching events to isc tasks and the  *)
(*                handlers update_zone / update_record                     *)
(*   SpecSerial - SOA serial handling of ldap_parse_master_zoneentry and   *)
(*                update_record                                            *)
(*                (SpecJournal: with failing journal and apply calls)      *)
(*   SpecPtr    - modify_ldap_common with PTR synchronisation              *)
(*   SpecConn   - one LDAP connection: ldap_connect, ldap_reconnect,       *)
(*                handle_connection_error and the calls that use them      *)
(*                (SpecConnLive: the same with fairness)                   *)
(*   SpecSync   - the initial refresh, the sync barrier and the            *)
(*                publication of zones                                     *)
(*   SpecWatch  - the watcher thread and destroy_ldap_instance             *)
(*   SpecDiff   - diff_ldap_rbtdb for one node and one entry               *)
(*   SpecConv   - dns_to_ldap_dn_escape, dnsname_to_dn and dn_to_dnsname   *)
(*   SpecZone   - the entries of one zone: register, view, forward table,  *)
(*                files, with failing calls (SpecZones: two zones, no      *)
(*                failing calls)                                           *)
(*   SpecReload - the reload and restart of update_record                  *)
(*   SpecCap    - the concurrency cap with failing callbacks and handlers  *)
(*   SpecZr     - zone information read while its zone is deleted          *)
(* Each specification leaves the variables of the others unchanged.        *)
(***************************************************************************)
EXTENDS Integers, Sequences, FiniteSets, TLC

VARIABLES
    \* ---- connection pool (struct ldap_pool, struct ldap_connection) ----
    conn_semaphore,   \* pool->conn_semaphore: number of free permits
    lock,             \* lock[i]: owner of pool->conns[i]->lock, or NoThread
    pcPool,           \* position of each thread in get/put
    scan_i,           \* loop variable i of ldap_pool_getconnection
    ldap_conn,        \* *conn returned to the caller (0 = NULL)
    exiting,          \* inst->exiting
    \* ---- dispatcher and tasks (syncrepl_update, update_zone, update_record)
    zone_register,    \* origins held by inst->zone_register
    taskq,            \* taskq[t]: events posted to task t, in order
    running,          \* running[t]: the event task t is executing
    hpc,              \* hpc[t]: position of the running handler
    unlock,           \* local "unlock" of ldap_parse_master_zoneentry
    exclusive_requested, \* task manager: exclusive mode requested or held
    concurr_limit,    \* permits left in the concurrency-cap semaphore
    nposted,          \* number of entries the watcher has read so far
    \* ---- zone projection and SOA serial (one master zone) ----
    now,              \* isc_stdtime_get(), reduced to the serial width
    sync_state,       \* inst->sctx state: "init" or "finished"
    zone_exists,      \* the zone is in the zone register
    dbSerial,         \* SOA serial in the zone database
    dbSoa,            \* the other SOA fields in the zone database
    dbData,           \* non-SOA records at the zone apex in the database
    dbRec,            \* records of one name below the apex in the database
    echoq,            \* serials written back whose echo is still to come
    lastOp,           \* what the last handler run did
    \* ---- dynamic update write-back and PTR synchronization ----
    zone_sync_ptr,    \* setting sync_ptr of the forward zone
    rev_zone,         \* the reverse zone is in the zone register
    zone_dyn_update,  \* setting dyn_update of the reverse zone
    fwd,              \* fwd[o]: directory entry of owner name o (A values)
    rev,              \* directory entry of the reverse name (PTR values)
    upd,              \* upd[t]: the update thread t is executing
    lastUpd,          \* the last modify_ldap_common call that returned
    \* ---- one LDAP connection (struct ldap_connection) and its caller ----
    conn,             \* handle ("null", "init", "bound"), tries, and
                      \* next_reconnect as the seconds from now until it
    reconnect_interval, \* setting reconnect_interval
    reserved,         \* the connection is the one the watcher thread holds
    cent,             \* the directory entry the operations are about
    call,             \* the call in progress on the connection
    lastCall,         \* the last call that returned
    lastBind,         \* the last invocation of ldap_reconnect
    \* ---- initial refresh, sync barrier and the view ----
    sctx,             \* inst->sctx: state, registered tasks, barrier count
    sdir,             \* entries of the directory the server reports
    sent,             \* entries the server has sent in this refresh
    squeue,           \* squeue[t]: events posted to task t, in order
    srun,             \* srun[t]: the event task t is executing
    szone,            \* the master zone: register, view, who published it
    wpc,              \* watcher: "poll", or "barrier" in sync_barrier_wait
    nlive,            \* changes received after a refresh
    nreset,           \* refreshes started again
    \* ---- the watcher thread and destroy_ldap_instance ----
    wthread,          \* the watcher thread: position, sleep, handle
    destroy,          \* destroy_ldap_instance: position, inst->exiting
    inflight,         \* events posted whose handler has not returned
    \* ---- the difference between a database node and an entry ----
    rbt_rds,          \* rdatasets of the node, per type: TTL and values
    ldap_rdatalist,   \* rdatalists of the entry, per type: TTL and values
    diff,             \* the tuples of the diff, in order
    rbt_after,        \* records of the node after dns_diff_apply
    dpc,              \* "input", "diffed" or "applied"
    cin,              \* input of a conversion: a string, or a name and a register
    cres,             \* what the conversion returned
    zr,               \* origins in the zone register
    zview,            \* origins of the plugin's zones in the view
    zfiles,           \* origins whose zone file or journal is on disk
    fwdtable,         \* forward table of the view, per name
    fwd_register,     \* origins in the forward register
    zsync,            \* sync state, init or finished
    zdown,            \* running, destroyed or aborted
    lastZ,            \* what the last handler did
    ur,               \* the update_record call in progress
    zinfo,            \* zones that have a zone_info_t in the register
    readers,          \* write-back tasks: step, zone, pointer state
    deleters,         \* update_zone deletions per zone: step, unlock
    excl              \* exclusive mode requested among these tasks

poolVars == <<conn_semaphore, lock, pcPool, scan_i, ldap_conn, exiting>>
taskVars == <<zone_register, taskq, running, hpc, unlock,
              exclusive_requested, concurr_limit, nposted>>

serVars == <<now, sync_state, zone_exists, dbSerial, dbSoa, dbData, dbRec,
             echoq, lastOp>>

ptrVars == <<zone_sync_ptr, rev_zone, zone_dyn_update, fwd, rev, upd, lastUpd>>

connVars == <<conn, reconnect_interval, reserved, cent, call,
              lastCall, lastBind>>

syncVars == <<sctx, sdir, sent, squeue, srun, szone, wpc, nlive, nreset>>

watchVars == <<wthread, destroy, inflight>>

diffVars == <<rbt_rds, ldap_rdatalist, diff, rbt_after, dpc>>

convVars == <<cin, cres>>

zoneVars == <<zr, zview, zfiles, fwdtable, fwd_register, zsync, zdown,
              lastZ>>

reloadVars == <<ur>>

zrVars == <<zinfo, readers, deleters, excl>>

vars == <<poolVars, taskVars, serVars, ptrVars, connVars, syncVars,
          watchVars, diffVars, convVars, zoneVars, reloadVars, zrVars>>

(***************************************************************************)
(* Connection pool                                                         *)
(***************************************************************************)

\* pool->connections ("connections" setting, at least 2)
PoolSize == 2
\* number of threads that use the pool besides the watcher thread
NumWorkers == 3

NoThread == -1
\* the thread of ldap_syncrepl_watcher; workers are 1..NumWorkers
Watcher == 0
Workers == 1..NumWorkers
PoolThreads == Workers \cup {Watcher}
Conns == 1..PoolSize

\* what the pool operations leave alone
PoolFrame ==
    UNCHANGED <<taskVars, serVars, ptrVars, connVars, syncVars, watchVars,
                diffVars, convVars, zoneVars, reloadVars, zrVars>>

\* semaphore_init(&pool->conn_semaphore, connections)
semaphore_init_mutant(connections) == connections + 1
semaphore_init(connections) == connections

\* isc_mutex_trylock(&ldap_conn->lock) == ISC_R_SUCCESS
isc_mutex_trylock(i) == lock[i] = NoThread

PoolInit ==
    /\ conn_semaphore = semaphore_init(PoolSize)
    /\ lock = [i \in Conns |-> NoThread]
    /\ pcPool = [t \in PoolThreads |-> "idle"]
    /\ scan_i = [t \in PoolThreads |-> 0]
    /\ ldap_conn = [t \in PoolThreads |-> 0]
    /\ exiting = FALSE

\* A thread calls ldap_pool_getconnection (ldap_query, ldap_modify_do,
\* remove_entry_from_ldap, or the watcher at its start).
pool_getconnection_call(t) ==
    /\ pcPool[t] = "idle"
    /\ ~(t = Watcher /\ exiting)
    /\ pcPool' = [pcPool EXCEPT ![t] = "sem_wait"]
    /\ UNCHANGED <<conn_semaphore, lock, scan_i, ldap_conn, exiting>>
    /\ PoolFrame

\* CHECK(semaphore_wait_timed(&pool->conn_semaphore)): a permit is taken
semaphore_wait_ok(t) ==
    /\ pcPool[t] = "sem_wait"
    /\ conn_semaphore > 0
    /\ conn_semaphore' = conn_semaphore - 1
    /\ pcPool' = [pcPool EXCEPT ![t] = "scan"]
    /\ scan_i' = [scan_i EXCEPT ![t] = 1]
    /\ UNCHANGED <<lock, ldap_conn, exiting>>
    /\ PoolFrame

\* semaphore_wait_timed times out: ldap_pool_getconnection fails, *conn
\* stays NULL (the watcher thread then ends, cleanup label)
semaphore_wait_timeout(t) ==
    /\ pcPool[t] = "sem_wait"
    /\ conn_semaphore = 0
    /\ pcPool' = [pcPool EXCEPT ![t] = IF t = Watcher THEN "ended" ELSE "idle"]
    /\ UNCHANGED <<conn_semaphore, lock, scan_i, ldap_conn, exiting>>
    /\ PoolFrame

\* one iteration of: for (i = 0; i < pool->connections; i++) {
\*     ldap_conn = pool->conns[i]; if (trylock(...) == SUCCESS) break; }
\* followed, when the loop is left, by *conn = ldap_conn
pool_scan(t) ==
    /\ pcPool[t] = "scan"
    /\ LET i == scan_i[t] IN
       IF isc_mutex_trylock(i)
       THEN /\ lock' = [lock EXCEPT ![i] = t]
            /\ ldap_conn' = [ldap_conn EXCEPT ![t] = i]
            /\ pcPool' = [pcPool EXCEPT ![t] = "hold"]
            /\ UNCHANGED scan_i
       ELSE IF i < PoolSize
       THEN /\ scan_i' = [scan_i EXCEPT ![t] = i + 1]
            /\ UNCHANGED <<lock, ldap_conn, pcPool>>
       ELSE \* loop ran out: ldap_conn is the last connection, not locked
            /\ ldap_conn' = [ldap_conn EXCEPT ![t] = i]
            /\ pcPool' = [pcPool EXCEPT ![t] = "hold"]
            /\ UNCHANGED <<lock, scan_i>>
    /\ UNCHANGED <<conn_semaphore, exiting>>
    /\ PoolFrame

\* outcomes of the calls made while the connection is held
LdapOutcomes == {"LDAP_SUCCESS", "LDAP_NO_SUCH_OBJECT", "LDAP_SERVER_DOWN"}
IscOutcomes == {"ISC_R_SUCCESS", "ISC_R_FAILURE"}
PoolCallers == {"ldap_query", "ldap_modify_do", "remove_entry_from_ldap"}

\* ldap_query after ldap_pool_getconnection, to its return: the labels
\* passed.  handle_null: ldap_conn->handle == NULL; hce: the result of
\* handle_connection_error; s1, s2: ldap_search_ext_s of the first and the
\* second attempt
ldap_query_path(handle_null, hce, s1, s2) ==
    IF handle_null /\ hce # "ISC_R_SUCCESS" THEN <<"cleanup">>
    ELSE IF s1 \in {"LDAP_SUCCESS", "LDAP_NO_SUCH_OBJECT"}
    THEN <<"retry", "cleanup">>
    \* an error, once == 0: handle_connection_error, then goto retry
    ELSE IF hce # "ISC_R_SUCCESS" THEN <<"retry", "cleanup">>
    \* the second attempt ends at cleanup whatever s2 is: once is set
    ELSE <<"retry", "retry", "cleanup">>

\* ldap_modify_do after ldap_pool_getconnection: m1, m2 are the results of
\* the modify (or delete, or add) of the first and the second attempt
ldap_modify_do_path_mutant(handle_null, hce, m1, m2) ==
    IF hce # "ISC_R_SUCCESS" /\ (handle_null \/ m1 # "LDAP_SUCCESS")
    THEN <<"retry", "return">>
    ELSE <<"cleanup">>
ldap_modify_do_path(handle_null, hce, m1, m2) ==
    \* a NULL handle enters the block at retry with once set
    IF handle_null THEN <<"retry", "cleanup">>
    ELSE IF m1 = "LDAP_SUCCESS" THEN <<"cleanup">>
    \* goto retry: handle_connection_error and the second attempt both
    \* end at cleanup, by CHECK or by once
    ELSE <<"retry", "cleanup">>

\* remove_entry_from_ldap after ldap_pool_getconnection: connect is the
\* result of ldap_connect for a NULL handle, d of ldap_delete_ext_s
remove_entry_from_ldap_path(handle_null, connect, d) ==
    IF handle_null /\ connect # "ISC_R_SUCCESS" THEN <<"cleanup">>
    ELSE <<"cleanup">>

\* the directory operation of a worker that holds a connection, from the
\* return of ldap_pool_getconnection to the label its function leaves by
caller_run(t, fn, handle_null, r, o1, o2) ==
    /\ t \in Workers
    /\ pcPool[t] = "hold"
    /\ LET path == CASE fn = "ldap_query" ->
                           ldap_query_path(handle_null, r, o1, o2)
                     [] fn = "ldap_modify_do" ->
                           ldap_modify_do_path(handle_null, r, o1, o2)
                     [] OTHER ->
                           remove_entry_from_ldap_path(handle_null, r, o1)
           last == path[Len(path)]
       IN  \* "cleanup" calls ldap_pool_putconnection; a return without it
           \* leaves the function with the connection still held
           /\ pcPool' = [pcPool EXCEPT ![t] = IF last = "cleanup"
                                              THEN "cleanup" ELSE "idle"]
           /\ ldap_conn' = [ldap_conn EXCEPT ![t] = IF last = "cleanup"
                                                    THEN @ ELSE 0]
    /\ UNCHANGED <<conn_semaphore, lock, scan_i, exiting>>
    /\ PoolFrame

\* ldap_pool_putconnection, first half: UNLOCK(&ldap_conn->lock).
\* Workers release at the cleanup label of their function; the watcher
\* only when inst->exiting ended its loop.
pool_putconnection_unlock(t) ==
    /\ pcPool[t] = IF t = Watcher THEN "hold" ELSE "cleanup"
    /\ t = Watcher => exiting
    /\ lock' = [lock EXCEPT ![ldap_conn[t]] = NoThread]
    /\ pcPool' = [pcPool EXCEPT ![t] = "sem_signal"]
    /\ UNCHANGED <<conn_semaphore, scan_i, ldap_conn, exiting>>
    /\ PoolFrame

\* ldap_pool_putconnection, second half:
\* semaphore_signal(&pool->conn_semaphore); *conn = NULL
pool_putconnection_signal(t) ==
    /\ pcPool[t] = "sem_signal"
    /\ conn_semaphore' = conn_semaphore + 1
    /\ ldap_conn' = [ldap_conn EXCEPT ![t] = 0]
    /\ pcPool' = [pcPool EXCEPT ![t] = IF t = Watcher THEN "ended" ELSE "idle"]
    /\ UNCHANGED <<lock, scan_i, exiting>>
    /\ PoolFrame

\* destroy_ldap_instance sets inst->exiting
set_exiting ==
    /\ ~exiting
    /\ exiting' = TRUE
    /\ UNCHANGED <<conn_semaphore, lock, pcPool, scan_i, ldap_conn>>
    /\ PoolFrame

NextPool ==
    \/ \E t \in PoolThreads : pool_getconnection_call(t)
    \/ \E t \in PoolThreads : semaphore_wait_ok(t)
    \/ \E t \in PoolThreads : semaphore_wait_timeout(t)
    \/ \E t \in PoolThreads : pool_scan(t)
    \/ \E t \in Workers, fn \in PoolCallers, h \in BOOLEAN,
          r \in IscOutcomes, o1, o2 \in LdapOutcomes :
          caller_run(t, fn, h, r, o1, o2)
    \/ \E t \in PoolThreads : pool_putconnection_unlock(t)
    \/ \E t \in PoolThreads : pool_putconnection_signal(t)
    \/ set_exiting

(***************************************************************************)
(* Dispatcher and task system                                              *)
(*                                                                         *)
(* The isc task library is used as follows: every task runs its events one *)
(* at a time in posting order, different tasks run in parallel on the      *)
(* worker threads, and isc_task_beginexclusive either returns LOCKBUSY at  *)
(* once (exclusive mode already requested) or blocks until no other task   *)
(* is running; no task starts a new event while exclusive mode is          *)
(* requested.                                                              *)
(***************************************************************************)

\* number of change-stream entries the watcher delivers in one run
MaxEntries == 4
\* permits of the concurrency-cap semaphore (sync_concurr_limit_wait)
ConcurrLimit == 3

\* dns_rootname, and the zone origins found in the directory
RootName == "."
Origins == {RootName, "z1."}
\* inst->task, and the task of each zone (dns_zone_gettask)
InstTask == "inst"
TaskIds == {InstTask} \cup Origins

NoEvent == [class |-> "none", origin |-> "none"]
\* LDAP_ENTRYCLASS_MASTER / LDAP_ENTRYCLASS_RR entries with their zone
Entries == [class : {"master", "rr"}, origin : Origins]

TaskInit ==
    /\ zone_register = {}
    /\ taskq = [t \in TaskIds |-> << >>]
    /\ running = [t \in TaskIds |-> NoEvent]
    /\ hpc = [t \in TaskIds |-> "none"]
    /\ unlock = [t \in TaskIds |-> FALSE]
    /\ exclusive_requested = FALSE
    /\ concurr_limit = ConcurrLimit
    /\ nposted = 0

TaskFrame ==
    UNCHANGED <<poolVars, serVars, ptrVars, connVars, syncVars, watchVars,
                diffVars, convVars, zoneVars, reloadVars, zrVars>>

\* dn_to_dnsname(dn, &entry_name, &zone_name): a DN with one idnsName
\* component (zone entry) gives origin = root, a DN with two components
\* (record entry) gives origin = the zone
dn_zone_name(e) == IF e.class = "master" THEN RootName ELSE e.origin

\* syncrepl_update: choice of the task the event is sent to.
\* zr_get_zone_ptr succeeds for a registered origin; zones in the register
\* always have a manager (create_zone calls dns_zonemgr_managezone).
dispatch_task_mutant(e) == e.origin
dispatch_task(e) ==
    IF e.class \in {"master", "rr"} /\ dn_zone_name(e) \in zone_register
    THEN dn_zone_name(e)
    ELSE InstTask

\* ldap_sync_search_entry + syncrepl_update: the watcher thread takes a
\* permit of the concurrency cap and posts the event (isc_task_send)
syncrepl_update(e) ==
    /\ nposted < MaxEntries
    /\ concurr_limit > 0
    /\ concurr_limit' = concurr_limit - 1
    /\ nposted' = nposted + 1
    /\ taskq' = [taskq EXCEPT ![dispatch_task(e)] = Append(@, e)]
    /\ UNCHANGED <<zone_register, running, hpc, unlock, exclusive_requested>>
    /\ TaskFrame

\* manager->tasks_running
tasks_running == Cardinality({t \in TaskIds : running[t] # NoEvent})

\* a worker thread takes the next event of a ready task
task_run(t) ==
    /\ running[t] = NoEvent
    /\ taskq[t] # << >>
    /\ ~exclusive_requested
    /\ running' = [running EXCEPT ![t] = Head(taskq[t])]
    /\ taskq' = [taskq EXCEPT ![t] = Tail(@)]
    /\ hpc' = [hpc EXCEPT ![t] =
                 IF Head(taskq[t]).class = "master" THEN "uz_begin"
                                                    ELSE "ur_begin"]
    /\ UNCHANGED <<zone_register, unlock, exclusive_requested,
                   concurr_limit, nposted>>
    /\ TaskFrame

\* update_zone -> ldap_parse_master_zoneentry: isc_task_beginexclusive(task)
\* LOCKBUSY: go on without exclusive mode (unlock stays false)
update_zone_beginexclusive(t) ==
    /\ hpc[t] = "uz_begin"
    /\ IF exclusive_requested
       THEN /\ hpc' = [hpc EXCEPT ![t] = "uz_body"]
            /\ unlock' = [unlock EXCEPT ![t] = FALSE]
            /\ UNCHANGED exclusive_requested
       ELSE /\ exclusive_requested' = TRUE
            /\ hpc' = [hpc EXCEPT ![t] = "uz_wait"]
            /\ UNCHANGED unlock
    /\ UNCHANGED <<zone_register, taskq, running, concurr_limit, nposted>>
    /\ TaskFrame

\* isc_task_beginexclusive returns ISC_R_SUCCESS once this task is the
\* only one running
update_zone_exclusive(t) ==
    /\ hpc[t] = "uz_wait"
    /\ tasks_running = 1
    /\ hpc' = [hpc EXCEPT ![t] = "uz_body"]
    /\ unlock' = [unlock EXCEPT ![t] = TRUE]
    /\ UNCHANGED <<zone_register, taskq, running, exclusive_requested,
                   concurr_limit, nposted>>
    /\ TaskFrame

\* ldap_parse_master_zoneentry: zr_get_zone_ptr / create_zone / zr_add_zone,
\* settings and ACLs, then dns_db_newversion on the zone database
update_zone_open(t) ==
    /\ hpc[t] = "uz_body"
    /\ zone_register' = zone_register \cup {running[t].origin}
    /\ hpc' = [hpc EXCEPT ![t] = "uz_db"]
    /\ UNCHANGED <<taskq, running, unlock, exclusive_requested,
                   concurr_limit, nposted>>
    /\ TaskFrame

\* diff, journal, dns_diff_apply, dns_db_closeversion, then the cleanup
\* label: isc_task_endexclusive if unlock
update_zone_commit(t) ==
    /\ hpc[t] = "uz_db"
    /\ hpc' = [hpc EXCEPT ![t] = "uz_end"]
    /\ exclusive_requested' = IF unlock[t] THEN FALSE ELSE exclusive_requested
    /\ unlock' = [unlock EXCEPT ![t] = FALSE]
    /\ UNCHANGED <<zone_register, taskq, running, concurr_limit, nposted>>
    /\ TaskFrame

\* update_record: zr_get_zone_ptr(origin) fails -> cleanup; otherwise
\* zr_get_zone_dbs and dns_db_newversion
update_record_open(t) ==
    /\ hpc[t] = "ur_begin"
    /\ hpc' = [hpc EXCEPT ![t] =
                 IF running[t].origin \in zone_register THEN "ur_db"
                                                        ELSE "ur_end"]
    /\ UNCHANGED <<zone_register, taskq, running, unlock,
                   exclusive_requested, concurr_limit, nposted>>
    /\ TaskFrame

\* diff, journal, dns_diff_apply, dns_db_closeversion
update_record_commit(t) ==
    /\ hpc[t] = "ur_db"
    /\ hpc' = [hpc EXCEPT ![t] = "ur_end"]
    /\ UNCHANGED <<zone_register, taskq, running, unlock,
                   exclusive_requested, concurr_limit, nposted>>
    /\ TaskFrame

\* end of update_zone / update_record: sync_concurr_limit_signal and
\* return to the task library
handler_return(t) ==
    /\ hpc[t] \in {"uz_end", "ur_end"}
    /\ concurr_limit' = concurr_limit + 1
    /\ running' = [running EXCEPT ![t] = NoEvent]
    /\ hpc' = [hpc EXCEPT ![t] = "none"]
    /\ UNCHANGED <<zone_register, taskq, unlock, exclusive_requested,
                   nposted>>
    /\ TaskFrame

NextTask ==
    \/ \E e \in Entries : syncrepl_update(e)
    \/ \E t \in TaskIds : task_run(t)
    \/ \E t \in TaskIds : update_zone_beginexclusive(t)
    \/ \E t \in TaskIds : update_zone_exclusive(t)
    \/ \E t \in TaskIds : update_zone_open(t)
    \/ \E t \in TaskIds : update_zone_commit(t)
    \/ \E t \in TaskIds : update_record_open(t)
    \/ \E t \in TaskIds : update_record_commit(t)
    \/ \E t \in TaskIds : handler_return(t)

\* sync_concurr_limit_signal calls made by ldap_sync_search_entry and
\* syncrepl_update themselves for an entry whose way ended at stage:
\* ldap_entry_create failed (cleanup of ldap_sync_search_entry), a call of
\* syncrepl_update before isc_task_send failed (its cleanup; the result of
\* ldap_sync_search_entry is still that of ldap_entry_create), or the
\* event was sent
callback_signals(stage) ==
    CASE stage = "ldap_entry_create" -> 1
      [] stage = "syncrepl_update" -> 1
      [] OTHER -> 0

\* ldap_sync_search_entry for an entry that is not posted:
\* sync_concurr_limit_wait, the failure, and the signals of the callback
callback_failed(stage) ==
    /\ nposted < MaxEntries
    /\ concurr_limit > 0
    /\ concurr_limit' = concurr_limit - 1 + callback_signals(stage)
    /\ nposted' = nposted + 1
    /\ UNCHANGED <<zone_register, taskq, running, hpc, unlock,
                   exclusive_requested>>
    /\ TaskFrame

\* update_zone / update_record: CHECK(manager_get_ldap_instance) fails (the
\* instance is no longer known to the manager), inst is still NULL at the
\* cleanup label and sync_concurr_limit_signal(inst->sctx) reads through
\* it: the thread ends by SIGSEGV, or the read gives a pointer that is no
\* semaphore of this instance and the handler returns
handler_no_instance(t, outcome) ==
    /\ hpc[t] \in {"uz_begin", "ur_begin"}
    /\ IF outcome = "SIGSEGV"
       THEN /\ hpc' = [hpc EXCEPT ![t] = "segv"]
            /\ UNCHANGED running
       ELSE /\ hpc' = [hpc EXCEPT ![t] = "none"]
            /\ running' = [running EXCEPT ![t] = NoEvent]
    /\ UNCHANGED <<zone_register, taskq, unlock, exclusive_requested,
                   concurr_limit, nposted>>
    /\ TaskFrame

\* the change stream with the failures of the callback, of the dispatcher
\* and of the instance lookup
NextCap ==
    \/ NextTask
    \/ \E stage \in {"ldap_entry_create", "syncrepl_update"} :
          callback_failed(stage)
    \/ \E t \in TaskIds, o \in {"SIGSEGV", "wild"} :
          handler_no_instance(t, o)

\* events posted whose handler has not come to its end
events_in_flight ==
    Len(taskq[InstTask]) + Len(taskq[RootName]) + Len(taskq["z1."])
    + Cardinality({t \in TaskIds : running[t] # NoEvent /\ hpc[t] # "segv"})

\* the handler running on task t is between opening and closing a
\* version of the database of zone o
InZoneDb(t, o) == hpc[t] \in {"uz_db", "ur_db"} /\ running[t].origin = o

(***************************************************************************)
(* Zone projection and SOA serial                                          *)
(*                                                                         *)
(* One master zone.  The handlers run one at a time here.  The entries the *)
(* change stream delivers are inputs; every successful serial write-back   *)
(* changes the zone entry in the directory and so comes back later as one  *)
(* more zone event (the echo) that carries the serial written.             *)
(***************************************************************************)

\* width of a SOA serial and of the clock in bits (isc_uint32_t scaled down)
SerialBits == 2
\* number of write-backs whose echo is still to come
MaxEcho == 1

SerialMod == 2 ^ SerialBits
SerialHalf == 2 ^ (SerialBits - 1)
Serials == 0 .. (SerialMod - 1)

SoaVals == {"soa1", "soa2"}
DataVals == {"ns1", "ns2"}
RecVals == {"none", "a1"}
\* zone entries as ldap_parse_rrentry sees them
ZoneEntries == [serial : Serials, soa : SoaVals, data : DataVals]

SerFrame ==
    UNCHANGED <<poolVars, taskVars, ptrVars, connVars, syncVars, watchVars,
                diffVars, convVars, zoneVars, reloadVars, zrVars>>

\* isc_serial_lt / isc_serial_gt / isc_serial_le: RFC 1982 comparison,
\* (int)(a - b) < 0, (int)(a - b) > 0, a == b || lt; for a == b ^ 2^(w-1)
\* the order is undefined and lt and gt are both false
isc_serial_lt(a, b) == ((a - b + SerialMod) % SerialMod) > SerialHalf
isc_serial_gt(a, b) ==
    LET d == (a - b + SerialMod) % SerialMod IN d > 0 /\ d < SerialHalf
isc_serial_le(a, b) == a = b \/ isc_serial_lt(a, b)

\* dns_update_soaserial(serial, dns_updatemethod_unixtime)
dns_update_soaserial(serial) ==
    IF now # 0 /\ isc_serial_gt(now, serial)
    THEN now
    ELSE LET s == (serial + 1) % SerialMod IN IF s = 0 THEN 1 ELSE s

\* update_soa_serial: bump the serial of the given SOA tuple
update_soa_serial(tuple_serial) == dns_update_soaserial(tuple_serial)

\* diff_analyze_serial, *data_changed: a non-SOA tuple, a SOA ADD without
\* DEL, or a SOA DEL/ADD pair that differs in more than the serial
diff_analyze_serial(nonsoa, soa_add, soa_del, soa_fields_differ) ==
    \/ nonsoa
    \/ soa_add /\ ~soa_del
    \/ soa_add /\ soa_del /\ soa_fields_differ

\* ldap_parse_master_zoneentry: "data_changed || sync_state != finished"
serial_forced_mutant(data_changed) == TRUE
serial_forced(data_changed) == data_changed \/ sync_state # "finished"

NoOp == [op |-> "none", ok |-> FALSE, echo |-> FALSE, state |-> "init",
         new_zone |-> FALSE, same_data |-> FALSE, nonsoa |-> FALSE,
         synth |-> FALSE, ldap_writeback |-> FALSE, journal |-> FALSE,
         applied |-> FALSE, ahead |-> FALSE, serial_lt |-> FALSE,
         serial_gt |-> FALSE, branch |-> "none", serial_le |-> FALSE,
         serial_only |-> FALSE]

SerInit ==
    /\ now \in Serials
    /\ sync_state = "init"
    /\ zone_exists = FALSE
    /\ dbSerial = 0
    /\ dbSoa = "soa1"
    /\ dbData = "ns1"
    /\ dbRec = "none"
    /\ echoq = << >>
    /\ lastOp = NoOp

\* time passes
isc_stdtime_tick ==
    /\ now' = (now + 1) % SerialMod
    /\ UNCHANGED <<sync_state, zone_exists, dbSerial, dbSoa, dbData, dbRec,
                   echoq, lastOp>>
    /\ SerFrame

\* ldap_sync_intermediate / barrier: initial synchronization is done
sync_finish ==
    /\ sync_state = "init"
    /\ sync_state' = "finished"
    /\ UNCHANGED <<now, zone_exists, dbSerial, dbSoa, dbData, dbRec,
                   echoq, lastOp>>
    /\ SerFrame

\* ldap_sync_prepare after a lost connection: sync_state_reset
sync_state_reset ==
    /\ sync_state = "finished"
    /\ sync_state' = "init"
    /\ UNCHANGED <<now, zone_exists, dbSerial, dbSoa, dbData, dbRec,
                   echoq, lastOp>>
    /\ SerFrame

\* the event queue after this handler: the echo just handled is gone, a
\* successful ldap_replace_serial adds the echo of the serial it wrote
echo_queue(is_echo, wrote, serial) ==
    LET rest == IF is_echo THEN Tail(echoq) ELSE echoq
    IN  IF wrote THEN Append(rest, serial) ELSE rest

\* the branch ldap_parse_master_zoneentry takes after diff_analyze_serial:
\* "synth"   no SOA in the diff: DEL/ADD pair made from the database SOA
\* "rewrite" serial of the entry's SOA tuple replaced by a bumped one
\* "keep"    serial of the entry applied as it is
\* "empty"   the diff is empty
\* "clear"   serial-only diff that moves the serial back: dns_diff_clear
serial_branch(e, new_zone, soa_add, data_changed) ==
    IF serial_forced(data_changed)
    THEN IF ~soa_add THEN "synth"
         ELSE IF \/ new_zone
                 \/ sync_state # "finished"
                 \/ isc_serial_le(e.serial, dbSerial)
              THEN "rewrite"
              ELSE "keep"
    ELSE IF ~soa_add THEN "empty"
         ELSE IF isc_serial_le(e.serial, dbSerial) THEN "clear"
              ELSE "keep"

\* ldap_writeback after that branch: ldap_replace_serial is called
serial_writeback_mutant(branch) == branch \in {"synth", "rewrite", "keep"}
serial_writeback(branch) == branch \in {"synth", "rewrite"}

\* EMPTY(diff.tuples) after that branch: nothing to journal or apply
diff_is_empty_mutant(branch) == branch = "empty"
diff_is_empty(branch) == branch \in {"empty", "clear"}

\* the transaction goes to the journal: "if (!EMPTY(diff.tuples))" and
\* "if (sync_state == sync_finished && new_zone == ISC_FALSE)"
zone_journaled_mutant(diff_empty, new_zone) ==
    ~diff_empty /\ sync_state = "finished"
zone_journaled(diff_empty, new_zone) ==
    ~diff_empty /\ sync_state = "finished" /\ ~new_zone

\* the serial bump, write-back and journal transaction of update_record:
\* "if (HEAD(diff.tuples) != NULL)" and "if (sync_state == sync_finished)"
record_journaled_mutant(nonsoa) == nonsoa
record_journaled(nonsoa) == nonsoa /\ sync_state = "finished"

\* the serial of the SOA ADD tuple of the diff after that branch
serial_of_diff(e, branch) ==
    CASE branch = "synth" -> update_soa_serial(dbSerial)
      [] branch = "rewrite" -> update_soa_serial(e.serial)
      [] OTHER -> e.serial

\* ldap_parse_master_zoneentry, from the diff to the commit, for zone
\* entry e.  is_echo: the event is the echo of the oldest write-back;
\* wb_ok: ldap_replace_serial succeeded; jn_ok:
\* dns_journal_write_transaction succeeded; ap_ok: dns_diff_apply
\* succeeded.
ldap_parse_master_zoneentry(e, is_echo, wb_ok, jn_ok, ap_ok) ==
    /\ IF is_echo THEN echoq # << >> /\ e.serial = Head(echoq)
                  ELSE Len(echoq) < MaxEcho
    /\ LET new_zone == ~zone_exists
           \* minimal diff of the apex: SOA DEL/ADD appear iff the rdata differ
           soa_add == new_zone \/ e.serial # dbSerial \/ e.soa # dbSoa
           soa_del == ~new_zone /\ soa_add
           nonsoa == new_zone \/ e.data # dbData
       IN
       \E data_changed \in
            {diff_analyze_serial(nonsoa, soa_add, soa_del, e.soa # dbSoa)} :
       \E branch \in {serial_branch(e, new_zone, soa_add, data_changed)} :
       \E new_serial \in {serial_of_diff(e, branch)} :
       LET ldap_writeback == serial_writeback(branch)
           diff_empty == diff_is_empty(branch)
           to_journal == zone_journaled(diff_empty, new_zone)
           journaled == ~to_journal \/ jn_ok
           ok == journaled /\ (diff_empty \/ ap_ok)
           applied == ~diff_empty /\ ok
           wrote == ldap_writeback /\ wb_ok
       IN  \* the outcomes are inputs only where the call is made
           /\ ~ldap_writeback => wb_ok
           /\ ~to_journal => jn_ok
           /\ ~(~diff_empty /\ journaled) => ap_ok
           /\ echoq' = echo_queue(is_echo, wrote, new_serial)
           /\ zone_exists' = (zone_exists \/ applied)
           /\ dbSerial' = IF applied THEN new_serial ELSE dbSerial
           /\ dbSoa' = IF applied THEN e.soa ELSE dbSoa
           /\ dbData' = IF applied THEN e.data ELSE dbData
           /\ lastOp' = [op |-> "zone", ok |-> ok, echo |-> is_echo,
                         state |-> sync_state, new_zone |-> new_zone,
                         same_data |-> (~new_zone /\ e.soa = dbSoa
                                                  /\ e.data = dbData),
                         nonsoa |-> (nonsoa /\ applied),
                         synth |-> (branch = "synth" /\ applied),
                         ldap_writeback |-> ldap_writeback,
                         journal |-> (to_journal /\ jn_ok),
                         applied |-> applied,
                         ahead |-> (~new_zone
                                    /\ isc_serial_gt(e.serial, dbSerial)),
                         serial_lt |-> (~new_zone /\ applied
                                        /\ isc_serial_lt(new_serial, dbSerial)),
                         serial_gt |-> (~new_zone /\ applied
                                        /\ isc_serial_gt(new_serial, dbSerial)),
                         branch |-> branch,
                         serial_le |-> (~new_zone
                                        /\ isc_serial_le(e.serial, dbSerial)),
                         serial_only |-> (~new_zone /\ e.soa = dbSoa
                                          /\ e.data = dbData
                                          /\ e.serial # dbSerial)]
    /\ UNCHANGED <<now, sync_state, dbRec>>
    /\ SerFrame

\* update_record, from zr_get_zone_ptr to the commit, for a record entry
\* with data rec
update_record(rec, writeback_ok, journal_ok, apply_ok) ==
    /\ Len(echoq) < MaxEcho
    /\ \E serial \in {update_soa_serial(dbSerial)} :
       LET nonsoa == zone_exists /\ rec # dbRec
           finished == sync_state = "finished"
           ldap_writeback == record_journaled(nonsoa)
           journaled == ~ldap_writeback \/ journal_ok
           ok == zone_exists /\ journaled /\ (~nonsoa \/ apply_ok)
           applied == nonsoa /\ ok
           wrote == ldap_writeback /\ writeback_ok
       IN  /\ ~ldap_writeback => (writeback_ok /\ journal_ok)
           /\ ~(nonsoa /\ journaled) => apply_ok
           /\ echoq' = echo_queue(FALSE, wrote, serial)
           /\ dbRec' = IF applied THEN rec ELSE dbRec
           /\ dbSerial' = IF applied /\ finished THEN serial ELSE dbSerial
           /\ lastOp' = [op |-> "rr", ok |-> ok, echo |-> FALSE,
                         state |-> sync_state, new_zone |-> FALSE,
                         same_data |-> FALSE,
                         nonsoa |-> applied,
                         synth |-> (applied /\ finished),
                         ldap_writeback |-> ldap_writeback,
                         journal |-> (ldap_writeback /\ journal_ok),
                         applied |-> applied,
                         ahead |-> FALSE,
                         serial_lt |-> (applied /\ finished
                                        /\ isc_serial_lt(serial, dbSerial)),
                         serial_gt |-> (applied /\ finished
                                        /\ isc_serial_gt(serial, dbSerial)),
                         branch |-> IF ~zone_exists THEN "none"
                                    ELSE IF ~nonsoa THEN "empty"
                                    ELSE IF finished THEN "synth"
                                    ELSE "plain",
                         serial_le |-> FALSE,
                         serial_only |-> FALSE]
    /\ UNCHANGED <<now, sync_state, zone_exists, dbSoa, dbData>>
    /\ SerFrame

NextSerial ==
    \/ isc_stdtime_tick
    \/ sync_finish
    \/ sync_state_reset
    \/ \E e \in ZoneEntries, is_echo, w, j \in BOOLEAN :
           ldap_parse_master_zoneentry(e, is_echo, w, j, TRUE)
    \/ \E r \in RecVals, w, j \in BOOLEAN : update_record(r, w, j, TRUE)

\* the handlers with a failing dns_diff_apply as well, at one clock value
NextJournal ==
    \/ sync_finish
    \/ \E e \in ZoneEntries, is_echo, w, j, a \in BOOLEAN :
           ldap_parse_master_zoneentry(e, is_echo, w, j, a)
    \/ \E r \in RecVals, w, j, a \in BOOLEAN : update_record(r, w, j, a)

(***************************************************************************)
(* Dynamic update write-back and PTR synchronization                       *)
(*                                                                         *)
(* Update threads run modify_ldap_common for A records of one IP address.  *)
(* Every directory operation (modify, add, delete, search) is atomic at    *)
(* the server; the threads interleave between them.  The reverse name of   *)
(* the address lies strictly below the apex of the reverse zone.           *)
(***************************************************************************)

\* number of threads that carry dynamic updates
NumUpdaters == 2

Updaters == 1 .. NumUpdaters
Owners == {"h1.", "h2."}
\* the one rdata value of the A record, change[0]->mod_values[0]
IpStr == "192.0.2.1"

PtrFrame ==
    UNCHANGED <<poolVars, taskVars, serVars, connVars, syncVars, watchVars,
                diffVars, convVars, zoneVars, reloadVars, zrVars>>

\* a directory entry: the values of the attribute under study (ARecord of
\* an owner, PTRRecord of the reverse name) and whether it holds records
\* of other types
NoEntry == [exists |-> FALSE, vals |-> {}, other |-> FALSE]
Entry(vals, other) == [exists |-> TRUE, vals |-> vals, other |-> other]

\* ldap_modify_do(dn, mods, delete_node) on entry e; link_ok: the server
\* can be reached (after handle_connection_error at the latest).
\*   delete_node: ldap_delete_ext_s
\*   LDAP_MOD_ADD: ldap_modify_ext_s, and ldap_add_ext_s on NO_SUCH_OBJECT
\*   LDAP_MOD_DELETE: ldap_modify_ext_s; NO_SUCH_ATTRIBUTE is not retried
\*   but result keeps the ISC_R_FAILURE assigned after the first call
ldap_modify_do(e, mod_op, value, delete_node, link_ok) ==
    IF ~link_ok THEN [result |-> "ISC_R_FAILURE", entry |-> e]
    ELSE IF delete_node
    THEN IF e.exists THEN [result |-> "ISC_R_SUCCESS", entry |-> NoEntry]
                     ELSE [result |-> "ISC_R_FAILURE", entry |-> e]
    ELSE IF mod_op = "LDAP_MOD_ADD"
    THEN IF ~e.exists
         THEN [result |-> "ISC_R_SUCCESS", entry |-> Entry({value}, FALSE)]
         ELSE IF value \in e.vals
         THEN [result |-> "ISC_R_FAILURE", entry |-> e]
         ELSE [result |-> "ISC_R_SUCCESS",
               entry |-> Entry(e.vals \cup {value}, e.other)]
    ELSE IF e.exists /\ value \in e.vals
         THEN [result |-> "ISC_R_SUCCESS",
               entry |-> Entry(e.vals \ {value}, e.other)]
         ELSE [result |-> "ISC_R_FAILURE", entry |-> e]

\* what ldap_sync_ptr_validate found at the reverse name
ptr_saw(e, a_name) ==
    IF ~e.exists \/ e.vals = {} THEN "none"
    ELSE IF Cardinality(e.vals) > 1 THEN "multiple"
    ELSE IF e.vals = {a_name} THEN "equal"
    ELSE "different"

\* HEAD(ldap_rdlist) == TAIL(ldap_rdlist): one RRset in the node
only_rdatalist_mutant(e) == TRUE
only_rdatalist(e) == ~e.other

\* ldap_sync_ptr_validate: result and *delete_node; query_ok: the search
\* of ldapdb_rdatalist_get did not fail
ldap_sync_ptr_validate_mutant(e, a_name, mod_op, query_ok) ==
    [result |-> "ISC_R_SUCCESS", delete_node |-> FALSE]
ldap_sync_ptr_validate(e, a_name, mod_op, query_ok) ==
    LET saw == ptr_saw(e, a_name)
        res(r) == [result |-> r, delete_node |-> FALSE]
    IN  IF ~query_ok THEN res("ISC_R_FAILURE")
        ELSE IF saw = "multiple" THEN res("ISC_R_NOTIMPLEMENTED")
        ELSE IF mod_op = "LDAP_MOD_DELETE"
        THEN IF saw = "none" THEN res("ISC_R_IGNORE")
             ELSE IF saw = "different" THEN res("ISC_R_UNEXPECTEDTOKEN")
             ELSE [result |-> "ISC_R_SUCCESS",
                   delete_node |-> only_rdatalist(e)]
        ELSE IF saw = "equal" THEN res("ISC_R_IGNORE")
             ELSE IF saw = "different" THEN res("DNS_R_SINGLETON")
             ELSE res("ISC_R_SUCCESS")

\* ldap_sync_ptr before validation: ldap_find_ptr fails when no registered
\* zone holds the reverse name; then the dyn_update setting of that zone
ldap_find_ptr_mutant == "ISC_R_SUCCESS"
ldap_find_ptr ==
    IF ~rev_zone THEN "ISC_R_NOTFOUND"
    ELSE IF ~zone_dyn_update THEN "ISC_R_NOPERM"
    ELSE "ISC_R_SUCCESS"

Idle == [pc |-> "idle", owner |-> "h1.", mod_op |-> "LDAP_MOD_ADD",
         saw |-> "none", delete_node |-> FALSE, only |-> FALSE]

NoUpd == [done |-> FALSE, owner |-> "h1.", mod_op |-> "LDAP_MOD_ADD",
          a_ok |-> FALSE, gate |-> "none", valid |-> "none", saw |-> "none",
          only |-> FALSE, delete_node |-> FALSE, sent |-> FALSE,
          result |-> "none", ptr_exact |-> FALSE, ptr_kept |-> FALSE]

PtrInit ==
    /\ zone_sync_ptr \in BOOLEAN
    /\ rev_zone \in BOOLEAN
    /\ zone_dyn_update \in BOOLEAN
    /\ fwd \in [Owners -> {NoEntry, Entry({IpStr}, FALSE)}]
    /\ rev \in {NoEntry} \cup
               {Entry(v, o) : v \in SUBSET Owners, o \in BOOLEAN}
    /\ upd = [t \in Updaters |-> Idle]
    /\ lastUpd = NoUpd

\* modify_ldap_common up to the call of ldap_sync_ptr: the modification of
\* the owner entry.  delete_node comes from the caller
\* (remove_values_from_ldap); write_to_ldap passes false.
modify_ldap_common(t, owner, mod_op, delete_node, link_ok) ==
    /\ upd[t].pc = "idle"
    /\ mod_op = "LDAP_MOD_ADD" => ~delete_node
    /\ LET r == ldap_modify_do(fwd[owner], mod_op, IpStr, delete_node, link_ok)
           ret(res) == [NoUpd EXCEPT !.done = TRUE, !.owner = owner,
                                     !.mod_op = mod_op,
                                     !.a_ok = (r.result = "ISC_R_SUCCESS"),
                                     !.result = res,
                                     !.ptr_exact = (rev.vals = {owner}),
                                     !.ptr_kept = TRUE]
       IN  /\ fwd' = [fwd EXCEPT ![owner] = r.entry]
           /\ IF r.result # "ISC_R_SUCCESS"
              THEN lastUpd' = ret(r.result) /\ UNCHANGED upd
              ELSE IF ~zone_sync_ptr
              THEN lastUpd' = ret("ISC_R_SUCCESS") /\ UNCHANGED upd
              ELSE /\ upd' = [upd EXCEPT ![t] =
                                [Idle EXCEPT !.pc = "sync_ptr",
                                             !.owner = owner,
                                             !.mod_op = mod_op]]
                   /\ UNCHANGED lastUpd
    /\ UNCHANGED <<zone_sync_ptr, rev_zone, zone_dyn_update, rev>>
    /\ PtrFrame

\* ldap_sync_ptr up to the PTR modification: ldap_find_ptr, the settings
\* and ldap_sync_ptr_validate (one search of the reverse entry)
ldap_sync_ptr(t, query_ok) ==
    /\ upd[t].pc = "sync_ptr"
    /\ LET u == upd[t]
           gate == ldap_find_ptr
           v == ldap_sync_ptr_validate(rev, u.owner, u.mod_op, query_ok)
           ret(valid, saw, res) ==
               [NoUpd EXCEPT !.done = TRUE, !.owner = u.owner,
                             !.mod_op = u.mod_op, !.a_ok = TRUE,
                             !.gate = gate, !.valid = valid, !.saw = saw,
                             !.only = ~rev.other,
                             !.result = res,
                             !.ptr_exact = (rev.vals = {u.owner}),
                             !.ptr_kept = TRUE]
       IN  IF gate # "ISC_R_SUCCESS"
           THEN /\ query_ok
                /\ lastUpd' = ret("none", "none", gate)
                /\ upd' = [upd EXCEPT ![t] = Idle]
           ELSE IF v.result = "ISC_R_SUCCESS"
           THEN /\ upd' = [upd EXCEPT ![t] =
                             [u EXCEPT !.pc = "ptr_modify",
                                       !.saw = ptr_saw(rev, u.owner),
                                       !.delete_node = v.delete_node,
                                       !.only = ~rev.other]]
                /\ UNCHANGED lastUpd
           ELSE /\ lastUpd' = ret(v.result,
                                  IF query_ok THEN ptr_saw(rev, u.owner)
                                              ELSE "none",
                                  IF v.result = "ISC_R_IGNORE"
                                  THEN "ISC_R_SUCCESS" ELSE "DNS_R_SERVFAIL")
                /\ upd' = [upd EXCEPT ![t] = Idle]
    /\ UNCHANGED <<zone_sync_ptr, rev_zone, zone_dyn_update, fwd, rev>>
    /\ PtrFrame

\* ldap_sync_ptr: CHECK(ldap_modify_do(ptr_dn, change, delete_node)), and
\* the return of its result through modify_ldap_common
ldap_sync_ptr_modify(t, link_ok) ==
    /\ upd[t].pc = "ptr_modify"
    /\ LET u == upd[t]
           r == ldap_modify_do(rev, u.mod_op, u.owner, u.delete_node, link_ok)
       IN  /\ rev' = r.entry
           /\ lastUpd' =
                [NoUpd EXCEPT !.done = TRUE, !.owner = u.owner,
                              !.mod_op = u.mod_op, !.a_ok = TRUE,
                              !.gate = "ISC_R_SUCCESS",
                              !.valid = "ISC_R_SUCCESS",
                              !.saw = u.saw,
                              !.only = u.only,
                              !.delete_node = u.delete_node,
                              !.sent = TRUE,
                              !.result = r.result,
                              !.ptr_exact = (r.entry.vals = {u.owner}),
                              !.ptr_kept = (r.entry = rev)]
           /\ upd' = [upd EXCEPT ![t] = Idle]
    /\ UNCHANGED <<zone_sync_ptr, rev_zone, zone_dyn_update, fwd>>
    /\ PtrFrame

NextPtr ==
    \/ \E t \in Updaters, o \in Owners,
          op \in {"LDAP_MOD_ADD", "LDAP_MOD_DELETE"}, dn, ok \in BOOLEAN :
           modify_ldap_common(t, o, op, dn, ok)
    \/ \E t \in Updaters, ok \in BOOLEAN : ldap_sync_ptr(t, ok)
    \/ \E t \in Updaters, ok \in BOOLEAN : ldap_sync_ptr_modify(t, ok)

(***************************************************************************)
(* One LDAP connection: ldap_connect, ldap_reconnect,                      *)
(* handle_connection_error and the callers that issue directory            *)
(* operations on it (ldap_modify_do, ldap_query, remove_entry_from_ldap,   *)
(* and ldap_sync_prepare on the connection reserved for the watcher).      *)
(* The connection is held by one caller at a time (the pool's lock).       *)
(***************************************************************************)

\* cap of the seconds counted since the last bind attempt
MaxAge == 26
\* ldap_conn->tries (an unsigned int in the code) stops counting here;
\* every value from ntimes - 1 on selects the same interval
MaxTries == 4

\* const unsigned int intervals[] = { 2, 5, 20, UINT_MAX }: the entries below
\* UINT_MAX; ISC_MIN(UINT_MAX, reconnect_interval) is reconnect_interval
\* for every unsigned reconnect_interval
intervals == <<2, 5, 20>>
\* sizeof(intervals) / sizeof(intervals[0])
ntimes == Len(intervals) + 1
\* values of the reconnect_interval setting
ReconnectIntervals == {6, 25}

ISC_MIN(a, b) == IF a < b THEN a ELSE b

ConnFrame ==
    UNCHANGED <<poolVars, taskVars, serVars, ptrVars, syncVars, watchVars,
                diffVars, convVars, zoneVars, reloadVars, zrVars>>

\* the directory entry the calls work on: one attribute value under study
AbsentEntry == [exists |-> FALSE, has |-> FALSE, oc |-> "none"]
DirEntries == {AbsentEntry} \cup
              {[exists |-> TRUE, has |-> h, oc |-> "idnsRecord"] :
                  h \in BOOLEAN}

ModOps == {"LDAP_MOD_ADD", "LDAP_MOD_DELETE", "LDAP_MOD_REPLACE"}
\* outcome of the transport for one operation
Links == {"up", "LDAP_SERVER_DOWN", "LDAP_TIMEOUT"}
\* outcome of a bind; "krb5" is the failure of get_krb5_tgt
BindRets == {"LDAP_SUCCESS", "LDAP_INVALID_CREDENTIALS", "LDAP_SERVER_DOWN",
             "LDAP_TIMEOUT", "krb5"}

\* the server's answer to ldap_modify_ext_s / ldap_delete_ext_s
server_modify(e, mod_op, delete_node) ==
    IF ~e.exists THEN [err |-> "LDAP_NO_SUCH_OBJECT", entry |-> e]
    ELSE IF delete_node THEN [err |-> "LDAP_SUCCESS", entry |-> AbsentEntry]
    ELSE IF mod_op = "LDAP_MOD_ADD"
    THEN IF e.has THEN [err |-> "LDAP_TYPE_OR_VALUE_EXISTS", entry |-> e]
         ELSE [err |-> "LDAP_SUCCESS", entry |-> [e EXCEPT !.has = TRUE]]
    ELSE IF mod_op = "LDAP_MOD_DELETE"
    THEN IF e.has
         THEN [err |-> "LDAP_SUCCESS", entry |-> [e EXCEPT !.has = FALSE]]
         ELSE [err |-> "LDAP_NO_SUCH_ATTRIBUTE", entry |-> e]
    ELSE [err |-> "LDAP_SUCCESS", entry |-> [e EXCEPT !.has = TRUE]]

\* the server's answer to ldap_add_ext_s with new_mods: the original
\* modifications and objectClass = obj_str
obj_str_mutant == "none"
obj_str == "idnsRecord"
server_add(e) ==
    IF e.exists THEN [err |-> "LDAP_ALREADY_EXISTS", entry |-> e]
    ELSE [err |-> "LDAP_SUCCESS",
          entry |-> [exists |-> TRUE, has |-> TRUE, oc |-> obj_str]]

\* an operation on handle h: only a bound handle reaches the server
on_link(h, link, answer, e) ==
    IF h # "bound" THEN [err |-> "LDAP_SERVER_DOWN", entry |-> e]
    ELSE IF link # "up" THEN [err |-> link, entry |-> e]
    ELSE answer

\* ldap_reconnect on connection c = [handle, tries, next_reconnect]; bind:
\* whether it went on to authenticate (get_krb5_tgt and the bind call).  Times are kept relative to now:
\* isc_time_compare(&now, &next_reconnect) < 0 is next_reconnect > 0, and
\* isc_time_nowplusinterval(&next_reconnect, &delay) stores the delay.
reconnect_gate_mutant(c, force) == FALSE
reconnect_gate(c, force) ==
    ~force /\ c.tries > 0 /\ c.next_reconnect > 0
\* seconds = ISC_MIN(intervals[i], reconnect_interval)
seconds(i) ==
    IF i = ntimes - 1 THEN reconnect_interval
    ELSE ISC_MIN(intervals[i + 1], reconnect_interval)
reconnect_delay_mutant(c) == 0
reconnect_delay(c) == seconds(ISC_MIN(ntimes - 1, c.tries))
ldap_reconnect(c, force, bind_ret) ==
    IF reconnect_gate(c, force)
    THEN [conn |-> c, result |-> "ISC_R_SOFTQUOTA", bind |-> FALSE]
    ELSE LET c1 == IF force THEN c
                   ELSE [c EXCEPT !.next_reconnect = reconnect_delay(c),
                                  !.tries = ISC_MIN(c.tries + 1, MaxTries)]
         IN  IF bind_ret = "krb5"
             THEN [conn |-> c1, result |-> "ISC_R_NOTCONNECTED",
                   bind |-> TRUE]
             ELSE IF bind_ret # "LDAP_SUCCESS"
             THEN [conn |-> [c1 EXCEPT !.handle = "null"],
                   result |-> CASE bind_ret = "LDAP_INVALID_CREDENTIALS"
                                       -> "ISC_R_NOPERM"
                                [] bind_ret = "LDAP_SERVER_DOWN"
                                       -> "ISC_R_NOTCONNECTED"
                                [] bind_ret = "LDAP_TIMEOUT"
                                       -> "ISC_R_TIMEDOUT"
                                [] OTHER -> "ISC_R_FAILURE",
                   bind |-> TRUE]
             ELSE [conn |-> [c1 EXCEPT !.tries = 0, !.handle = "bound"],
                   result |-> "ISC_R_SUCCESS", bind |-> TRUE]

\* ldap_connect: ldap_initialize (init_ok), the new handle, ldap_reconnect,
\* and the cleanup that makes sure the handle is NULL
connect_cleanup_mutant(c) == c
connect_cleanup(c) == [c EXCEPT !.handle = "null"]
ldap_connect(c, force, init_ok, bind_ret) ==
    IF ~init_ok
    THEN [conn |-> connect_cleanup(c), result |-> "ISC_R_FAILURE",
          bind |-> FALSE, gate |-> FALSE]
    ELSE LET r == ldap_reconnect([c EXCEPT !.handle = "init"], force,
                                 bind_ret)
         IN  [conn |-> IF r.result = "ISC_R_SUCCESS" THEN r.conn
                       ELSE connect_cleanup(r.conn),
              result |-> r.result, bind |-> r.bind, gate |-> TRUE]

\* handle_connection_error; err_code is LDAP_OPT_RESULT_CODE of the handle
handle_connection_error(c, err_code, opt_ok, force, init_ok, bind_ret) ==
    IF c.handle # "null" /\ opt_ok /\ err_code = "LDAP_NO_SUCH_OBJECT"
    THEN [conn |-> [c EXCEPT !.tries = 0], result |-> "ISC_R_SUCCESS",
          bind |-> FALSE, gate |-> FALSE]
    ELSE IF c.handle # "null" /\ opt_ok /\ err_code = "LDAP_TIMEOUT"
    THEN [conn |-> c, result |-> "ISC_R_TIMEDOUT", bind |-> FALSE,
          gate |-> FALSE]
    ELSE ldap_connect(c, force, init_ok, bind_ret)

IdleCall == [pc |-> "idle", kind |-> "none", mod_op |-> "LDAP_MOD_ADD",
             delete_node |-> FALSE, once |-> FALSE, was_null |-> FALSE,
             nattempt |-> 0, nadd |-> 0, err1 |-> "none",
             mod_err |-> "none", opt_ok |-> TRUE,
             err_code |-> "none", hce |-> "none", reconn |-> FALSE,
             bad |-> FALSE, last_add |-> FALSE, add_ok |-> FALSE,
             add_oc |-> "none", wake_in |-> 0]

NoCall == [done |-> FALSE, result |-> "none", call |-> IdleCall]

NoBind == [called |-> FALSE, force |-> FALSE, tries_before |-> 0,
           next_before |-> 0, tries_after |-> 0, next_after |-> 0,
           attempted |-> FALSE, result |-> "none",
           att_age |-> 0, att_tries |-> 0, att_failed |-> FALSE, nfail |-> 0,
           gap_valid |-> FALSE, gap |-> 0, gap_tries |-> 0, gap_k |-> 0]

\* ldap_pool_connect has just run: the connection is bound, or the
\* server was down and the first ldap_connect failed
ConnInit ==
    /\ reconnect_interval \in ReconnectIntervals
    /\ reserved \in BOOLEAN
    /\ \E up \in BOOLEAN :
         LET r == ldap_connect([handle |-> "null", tries |-> 0,
                                next_reconnect |-> 0], FALSE, TRUE,
                               IF up THEN "LDAP_SUCCESS"
                                     ELSE "LDAP_SERVER_DOWN")
         IN  /\ conn = r.conn
             /\ lastBind = [NoBind EXCEPT !.att_failed = ~up,
                                          !.att_tries = 0,
                                          !.nfail = IF up THEN 0 ELSE 1]
    /\ cent \in DirEntries
    /\ call = IdleCall
    /\ lastCall = NoCall

\* lastCall and lastBind tell what the last step did: a step that neither
\* returns nor invokes ldap_reconnect leaves only the time, the tries value
\* and the outcome of the last bind attempt
bind_kept(b) == [NoBind EXCEPT !.att_age = b.att_age, !.att_tries = b.att_tries,
                               !.att_failed = b.att_failed,
                               !.nfail = b.nfail]
no_return == lastCall' = NoCall
no_bind == lastBind' = bind_kept(lastBind)

\* what an invocation r of ldap_connect leaves in lastBind
note_bind(r, force) ==
    IF ~r.gate THEN bind_kept(lastBind)
    ELSE [called |-> TRUE, force |-> force,
          tries_before |-> conn.tries,
          next_before |-> conn.next_reconnect,
          tries_after |-> r.conn.tries,
          next_after |-> r.conn.next_reconnect,
          attempted |-> r.bind, result |-> r.result,
          att_age |-> IF r.bind THEN 0 ELSE lastBind.att_age,
          att_tries |-> IF r.bind THEN conn.tries ELSE lastBind.att_tries,
          att_failed |-> IF r.bind THEN r.result # "ISC_R_SUCCESS"
                                   ELSE lastBind.att_failed,
          nfail |-> IF ~r.bind THEN lastBind.nfail
                    ELSE IF r.result = "ISC_R_SUCCESS" THEN 0
                    ELSE ISC_MIN(lastBind.nfail + 1, ntimes),
          gap_valid |-> r.bind /\ lastBind.att_failed,
          gap |-> IF r.bind THEN lastBind.att_age ELSE 0,
          gap_tries |-> lastBind.att_tries,
          gap_k |-> lastBind.nfail]

\* the caller returns result
call_return(c, result) ==
    /\ lastCall' = [done |-> TRUE, result |-> result, call |-> c]
    /\ call' = IdleCall

\* a second passes
clock_tick ==
    /\ conn' = [conn EXCEPT !.next_reconnect =
                               IF @ > 0 THEN @ - 1 ELSE 0]
    /\ call' = [call EXCEPT !.wake_in = IF @ > 0 THEN @ - 1 ELSE 0]
    /\ lastBind' = [bind_kept(lastBind) EXCEPT
                       !.att_age = ISC_MIN(@ + 1, MaxAge)]
    /\ UNCHANGED <<reconnect_interval, reserved, cent>>
    /\ no_return
    /\ ConnFrame

\* another client of the directory changes the entry
directory_change(e) ==
    /\ e # cent
    /\ cent' = e
    /\ UNCHANGED <<conn, reconnect_interval, reserved, call>>
    /\ no_return
    /\ no_bind
    /\ ConnFrame

\* ldap_modify_do, ldap_query (autoconn) and remove_entry_from_ldap up to
\* the test of ldap_conn->handle == NULL
getconnection(kind, mod_op, delete_node) ==
    /\ call.pc = "idle"
    /\ ~reserved
    /\ delete_node => mod_op = "LDAP_MOD_DELETE"
    /\ kind # "modify" => mod_op = "LDAP_MOD_DELETE" /\ ~delete_node
    /\ call' = [IdleCall EXCEPT
                  !.pc = IF conn.handle = "null" THEN "hce" ELSE "op",
                  !.kind = kind, !.mod_op = mod_op,
                  !.delete_node = delete_node,
                  !.once = (kind = "modify" /\ conn.handle = "null"),
                  !.was_null = (conn.handle = "null")]
    /\ UNCHANGED <<conn, reconnect_interval, reserved, cent>>
    /\ no_return
    /\ no_bind
    /\ ConnFrame

\* CHECK(handle_connection_error(ldap_inst, ldap_conn, ISC_FALSE)) of
\* ldap_modify_do and ldap_query, CHECK(ldap_connect(...)) of
\* remove_entry_from_ldap
connection_error(opt_ok, init_ok, bind_ret) ==
    /\ call.pc = "hce"
    /\ LET r == IF call.kind = "remove"
                THEN ldap_connect(conn, FALSE, init_ok, bind_ret)
                ELSE handle_connection_error(conn, call.err_code, opt_ok,
                                             FALSE, init_ok, bind_ret)
           c1 == [call EXCEPT !.hce = r.result,
                              !.reconn = r.gate /\ r.result = "ISC_R_SUCCESS"]
       IN  /\ conn' = r.conn
           /\ lastBind' = note_bind(r, FALSE)
           /\ IF r.result = "ISC_R_SUCCESS"
              THEN call' = [c1 EXCEPT !.pc = "op"] /\ no_return
              ELSE call_return(c1, r.result)
    /\ UNCHANGED <<reconnect_interval, reserved, cent>>
    /\ ConnFrame

\* ldap_modify_do from the directory operation to the return or the jump
\* to retry
once_mutant(c) == FALSE
once(c) == c.once
ldap_modify_do_op(link, link2, opt_ok) ==
    /\ call.pc = "op"
    /\ call.kind = "modify"
    /\ LET a1 == on_link(conn.handle, link,
                         server_modify(cent, call.mod_op, call.delete_node),
                         cent)
           tryadd == /\ a1.err = "LDAP_NO_SUCH_OBJECT"
                     /\ call.mod_op = "LDAP_MOD_ADD"
                     /\ opt_ok
           a2 == IF tryadd
                 THEN on_link(conn.handle, link2, server_add(a1.entry),
                              a1.entry)
                 ELSE a1
           c1 == [call EXCEPT
                    !.nattempt = call.nattempt + 1,
                    !.nadd = call.nadd + (IF tryadd THEN 1 ELSE 0),
                    !.err1 = IF call.nattempt = 0 THEN a2.err ELSE call.err1,
                    !.err_code = a2.err,
                    !.mod_err = a1.err, !.opt_ok = opt_ok,
                    !.bad = call.bad \/ conn.handle # "bound",
                    !.last_add = tryadd,
                    !.add_ok = tryadd /\ a2.err = "LDAP_SUCCESS",
                    !.add_oc = IF tryadd /\ a2.err = "LDAP_SUCCESS"
                               THEN a2.entry.oc ELSE "none"]
       IN  /\ tryadd \/ link2 = "up"
           /\ a1.err = "LDAP_SUCCESS" => opt_ok
           /\ cent' = a2.entry
           /\ IF a2.err = "LDAP_SUCCESS"
              THEN call_return(c1, "ISC_R_SUCCESS")
              ELSE IF ~opt_ok
              THEN call_return(c1, "ISC_R_FAILURE")
              ELSE IF /\ call.mod_op = "LDAP_MOD_DELETE"
                      /\ a2.err = "LDAP_NO_SUCH_ATTRIBUTE"
              THEN call_return(c1, "ISC_R_FAILURE")
              ELSE IF ~once(call)
              THEN /\ call' = [c1 EXCEPT !.pc = "hce", !.once = TRUE]
                   /\ no_return
              ELSE call_return(c1, "ISC_R_FAILURE")
    /\ UNCHANGED <<conn, reconnect_interval, reserved>>
    /\ no_bind
    /\ ConnFrame

\* ldap_query from ldap_search_ext_s to the return or the jump to retry
ldap_query_op(link) ==
    /\ call.pc = "op"
    /\ call.kind = "query"
    /\ LET a == on_link(conn.handle, link,
                        [err |-> IF cent.exists THEN "LDAP_SUCCESS"
                                 ELSE "LDAP_NO_SUCH_OBJECT",
                         entry |-> cent], cent)
           c1 == [call EXCEPT
                    !.nattempt = call.nattempt + 1,
                    !.err1 = IF call.nattempt = 0 THEN a.err ELSE call.err1,
                    !.err_code = a.err,
                    !.bad = call.bad \/ conn.handle # "bound"]
       IN  /\ conn' = IF a.err = "LDAP_SUCCESS"
                      THEN [conn EXCEPT !.tries = 0] ELSE conn
           /\ IF a.err = "LDAP_SUCCESS"
              THEN call_return(c1, "ISC_R_SUCCESS")
              ELSE IF a.err = "LDAP_NO_SUCH_OBJECT"
              THEN call_return(c1, "ISC_R_NOTFOUND")
              ELSE IF ~call.once
              THEN /\ call' = [c1 EXCEPT !.pc = "hce", !.once = TRUE]
                   /\ no_return
              ELSE call_return(c1, "ISC_R_FAILURE")
    /\ UNCHANGED <<reconnect_interval, reserved, cent>>
    /\ no_bind
    /\ ConnFrame

\* remove_entry_from_ldap: ldap_delete_ext_s and the return
remove_entry_from_ldap(link) ==
    /\ call.pc = "op"
    /\ call.kind = "remove"
    /\ LET a == on_link(conn.handle, link,
                        server_modify(cent, "LDAP_MOD_DELETE", TRUE), cent)
           c1 == [call EXCEPT
                    !.nattempt = call.nattempt + 1,
                    !.err1 = a.err, !.err_code = a.err,
                    !.bad = call.bad \/ conn.handle # "bound"]
       IN  /\ cent' = a.entry
           /\ call_return(c1, IF a.err = "LDAP_SUCCESS" THEN "ISC_R_SUCCESS"
                                                        ELSE "ISC_R_FAILURE")
    /\ UNCHANGED <<conn, reconnect_interval, reserved>>
    /\ no_bind
    /\ ConnFrame

\* ldap_sync_prepare on the watcher's connection: the head of
\* while (conn->handle == NULL) with the start of sane_sleep, or, with a
\* handle, its move to ldap_sync->ls_ld (conn->handle = NULL)
ldap_sync_prepare ==
    /\ call.pc = "idle"
    /\ reserved
    /\ IF conn.handle = "null"
       THEN /\ call' = [IdleCall EXCEPT !.pc = "sleep", !.kind = "syncrepl",
                                        !.wake_in = reconnect_interval]
            /\ UNCHANGED conn
       ELSE /\ call' = [IdleCall EXCEPT !.pc = "session",
                                        !.kind = "syncrepl"]
            /\ conn' = [conn EXCEPT !.handle = "null"]
    /\ UNCHANGED <<reconnect_interval, reserved, cent>>
    /\ no_return
    /\ no_bind
    /\ ConnFrame

\* ldap_sync_prepare: sane_sleep is over,
\* handle_connection_error(inst, conn, ISC_TRUE), back to the loop head
ldap_sync_prepare_connect(init_ok, bind_ret) ==
    /\ call.pc = "sleep"
    /\ call.wake_in = 0
    /\ LET r == handle_connection_error(conn, "none", TRUE, TRUE, init_ok,
                                        bind_ret)
       IN  /\ conn' = r.conn
           /\ lastBind' = note_bind(r, TRUE)
    /\ call' = IdleCall
    /\ UNCHANGED <<reconnect_interval, reserved, cent>>
    /\ no_return
    /\ ConnFrame

\* ldap_syncrepl_watcher: ldap_sync_init or ldap_sync_poll failed; the
\* connection's handle stays NULL and ldap_sync_prepare runs again
ldap_sync_poll_failed ==
    /\ call.pc = "session"
    /\ call' = IdleCall
    /\ UNCHANGED <<conn, reconnect_interval, reserved, cent>>
    /\ no_return
    /\ no_bind
    /\ ConnFrame

NextConn ==
    \/ clock_tick
    \/ \E e \in DirEntries : directory_change(e)
    \/ \E k \in {"modify", "query", "remove"}, op \in ModOps,
          dn \in BOOLEAN : getconnection(k, op, dn)
    \/ \E o, i \in BOOLEAN, b \in BindRets : connection_error(o, i, b)
    \/ \E l, l2 \in Links, o \in BOOLEAN : ldap_modify_do_op(l, l2, o)
    \/ \E l \in Links : ldap_query_op(l)
    \/ \E l \in Links : remove_entry_from_ldap(l)
    \/ ldap_sync_prepare
    \/ \E i \in BOOLEAN, b \in BindRets : ldap_sync_prepare_connect(i, b)
    \/ ldap_sync_poll_failed

(***************************************************************************)
(* Initial refresh, sync barrier and zone publication                      *)
(*                                                                         *)
(* The watcher thread receives the entries of the directory (a config      *)
(* entry, the entry of one master zone and one record entry below it) and  *)
(* dispatches them with syncrepl_update; the instance task and the zone's  *)
(* task run the handlers.  The barrier itself (sync_task_add,              *)
(* sync_barrier_wait, the barrier event and sync_state_reset of            *)
(* syncrepl.c) is not among the sources; it follows section 4.L of the     *)
(* specification: refresh-done posts a barrier event to every registered   *)
(* task, and the state becomes Finished, with activate_zones, when the     *)
(* last of them has run.                                                   *)
(***************************************************************************)

\* live changes the watcher receives after a refresh
MaxLive == 2
\* times the watcher loses its session and starts a new refresh
MaxResets == 1

SyncEntries == {"config", "master", "rr"}
SyncTasks == {"inst", "zone"}

SyncFrame ==
    UNCHANGED <<poolVars, taskVars, serVars, ptrVars, connVars, watchVars,
                diffVars, convVars, zoneVars, reloadVars, zrVars>>

NoRun == [class |-> "none", init |-> FALSE, pc |-> "none",
          seen |-> "none", new_zone |-> FALSE]
NoZone == [in_zr |-> FALSE, created |-> "none", saw |-> "none",
           in_view |-> FALSE, published_by |-> "none", done |-> FALSE]

SyncInit ==
    /\ sctx = [state |-> "init", tasks |-> {}, cnt |-> 0]
    /\ sdir \in {{"config"}, {"config", "master", "rr"}}
    /\ sent = {}
    /\ squeue = [t \in SyncTasks |-> << >>]
    /\ srun = [t \in SyncTasks |-> NoRun]
    /\ szone = NoZone
    /\ wpc = "poll"
    /\ nlive = 0
    /\ nreset = 0

\* syncrepl_update: the task of the event; the zone's task when the zone
\* is in the zone register, the instance task otherwise
sync_task_of(class) ==
    IF class \in {"master", "rr"} /\ szone.in_zr THEN "zone" ELSE "inst"

\* syncrepl_update: action == update_zone || action == update_config
barriered(class) == class \in {"master", "config"}

\* sync_task_add(sctx, task)
sync_task_add(s, t) == [s EXCEPT !.tasks = @ \cup {t}]

\* ldap_sync_search_entry and syncrepl_update for entry e: during the
\* refresh the server sends every entry of the directory once, afterwards
\* it sends changes
ldap_sync_search_entry(e) ==
    /\ wpc = "poll"
    /\ IF sctx.state = "init"
       THEN /\ e \in sdir \ sent
            /\ sent' = sent \cup {e}
            /\ UNCHANGED <<sdir, nlive>>
       ELSE /\ nlive < MaxLive
            /\ nlive' = nlive + 1
            /\ sdir' = sdir \cup {e}
            /\ UNCHANGED sent
    /\ LET t == sync_task_of(e)
       IN  /\ sctx' = IF barriered(e) /\ sctx.state = "init"
                      THEN sync_task_add(sctx, t) ELSE sctx
           /\ squeue' = [squeue EXCEPT ![t] =
                           Append(@, [class |-> e,
                                      init |-> sctx.state = "init"])]
    /\ UNCHANGED <<srun, szone, wpc, nreset>>
    /\ SyncFrame

\* ldap_sync_intermediate with LDAP_SYNC_CAPI_DONE: sync_barrier_wait posts
\* a barrier event to every registered task and blocks the watcher
ldap_sync_intermediate ==
    /\ wpc = "poll"
    /\ sctx.state = "init"
    /\ sent = sdir
    /\ sctx' = [sctx EXCEPT !.cnt = Cardinality(sctx.tasks), !.tasks = {}]
    /\ squeue' = [t \in SyncTasks |->
                    IF t \in sctx.tasks
                    THEN Append(squeue[t], [class |-> "barrier",
                                            init |-> FALSE])
                    ELSE squeue[t]]
    /\ wpc' = "barrier"
    /\ UNCHANGED <<sdir, sent, srun, szone, nlive, nreset>>
    /\ SyncFrame

\* the watcher lost its session: ldap_sync_prepare calls sync_state_reset
\* and a new refresh begins
sync_prepare_reset ==
    /\ wpc = "poll"
    /\ nreset < MaxResets
    /\ nreset' = nreset + 1
    /\ sctx' = [sctx EXCEPT !.state = "init"]
    /\ sent' = {}
    /\ UNCHANGED <<sdir, squeue, srun, szone, wpc, nlive>>
    /\ SyncFrame

\* a task takes the next event of its queue
sync_task_run(t) ==
    /\ srun[t] = NoRun
    /\ squeue[t] # << >>
    /\ LET ev == Head(squeue[t])
       IN  srun' = [srun EXCEPT ![t] =
                      [NoRun EXCEPT !.class = ev.class, !.init = ev.init,
                                    !.pc = IF ev.class = "master"
                                           THEN "get_zone" ELSE "run"]]
    /\ squeue' = [squeue EXCEPT ![t] = Tail(@)]
    /\ UNCHANGED <<sctx, sdir, sent, szone, wpc, nlive, nreset>>
    /\ SyncFrame

\* update_config, update_record: the handler runs and returns
sync_handler_done(t) ==
    /\ srun[t].pc = "run"
    /\ srun[t].class \in {"config", "rr"}
    /\ srun' = [srun EXCEPT ![t] = NoRun]
    /\ UNCHANGED <<sctx, sdir, sent, squeue, szone, wpc, nlive, nreset>>
    /\ SyncFrame

\* ldap_parse_master_zoneentry: zr_get_zone_ptr, and for a zone that is not
\* there create_zone up to sync_state_get
create_zone_getstate(t) ==
    /\ srun[t].pc = "get_zone"
    /\ srun' = [srun EXCEPT ![t] =
                  IF szone.in_zr THEN [@ EXCEPT !.pc = "publish"]
                  ELSE [@ EXCEPT !.pc = "task_add", !.seen = sctx.state]]
    /\ UNCHANGED <<sctx, sdir, sent, squeue, szone, wpc, nlive, nreset>>
    /\ SyncFrame

\* create_zone: sync_task_add of the new zone's task when the state read
\* was sync_init; then zr_add_zone and new_zone = ISC_TRUE
create_zone_taskadd(t) ==
    /\ srun[t].pc = "task_add"
    /\ IF szone.in_zr
       THEN UNCHANGED <<sctx, szone>>
       ELSE /\ sctx' = IF srun[t].seen = "init"
                       THEN sync_task_add(sctx, "zone") ELSE sctx
            /\ szone' = [NoZone EXCEPT !.in_zr = TRUE,
                                       !.created = sctx.state]
    /\ srun' = [srun EXCEPT ![t] = [@ EXCEPT !.pc = "publish",
                                             !.new_zone = ~szone.in_zr]]
    /\ UNCHANGED <<sdir, sent, squeue, wpc, nlive, nreset>>
    /\ SyncFrame

\* ldap_parse_master_zoneentry: sync_state_get and
\* if (new_zone == ISC_TRUE && sync_state == sync_finished) publish_zone;
\* the rest of the handler and its return
publish_now_mutant(new_zone, state) == new_zone
publish_now(new_zone, state) == new_zone /\ state = "finished"
zone_publish(t) ==
    /\ srun[t].pc = "publish"
    /\ szone' = IF ~srun[t].new_zone THEN szone
                ELSE IF publish_now(srun[t].new_zone, sctx.state)
                THEN [szone EXCEPT !.saw = sctx.state, !.done = TRUE,
                                   !.in_view = TRUE,
                                   !.published_by =
                                       IF szone.in_view THEN @
                                       ELSE "handler"]
                ELSE [szone EXCEPT !.saw = sctx.state, !.done = TRUE]
    /\ srun' = [srun EXCEPT ![t] = NoRun]
    /\ UNCHANGED <<sctx, sdir, sent, squeue, wpc, nlive, nreset>>
    /\ SyncFrame

\* the barrier event of a task: the last one sets the state to Finished,
\* calls activate_zones (every zone of the register is published) and
\* wakes the watcher
sync_barrier_event(t) ==
    /\ srun[t].pc = "run"
    /\ srun[t].class = "barrier"
    /\ srun' = [srun EXCEPT ![t] = NoRun]
    /\ IF sctx.cnt > 1
       THEN /\ sctx' = [sctx EXCEPT !.cnt = @ - 1]
            /\ UNCHANGED <<szone, wpc>>
       ELSE /\ sctx' = [sctx EXCEPT !.cnt = 0, !.state = "finished"]
            /\ szone' = IF szone.in_zr /\ ~szone.in_view
                        THEN [szone EXCEPT !.in_view = TRUE,
                                           !.published_by = "activate_zones"]
                        ELSE szone
            /\ wpc' = "poll"
    /\ UNCHANGED <<sdir, sent, squeue, nlive, nreset>>
    /\ SyncFrame

NextSync ==
    \/ \E e \in SyncEntries : ldap_sync_search_entry(e)
    \/ ldap_sync_intermediate
    \/ sync_prepare_reset
    \/ \E t \in SyncTasks : sync_task_run(t)
    \/ \E t \in SyncTasks : sync_handler_done(t)
    \/ \E t \in SyncTasks : create_zone_getstate(t)
    \/ \E t \in SyncTasks : create_zone_taskadd(t)
    \/ \E t \in SyncTasks : zone_publish(t)
    \/ \E t \in SyncTasks : sync_barrier_event(t)

(***************************************************************************)
(* The watcher thread and its shutdown                                     *)
(*                                                                         *)
(* ldap_syncrepl_watcher with sane_sleep, ldap_sync_prepare and the        *)
(* callbacks ldap_sync_search_entry and ldap_sync_intermediate, next to    *)
(* destroy_ldap_instance, which sets inst->exiting, sends SIGUSR1 once and *)
(* joins the thread.  SIGUSR1 has the no-op handler: it ends a sleep() or  *)
(* an ldap_result() the thread is blocked in and has no effect otherwise.  *)
(* The waits of syncrepl.c (concurrency cap, barrier) are not among the    *)
(* sources; following the specification they end when the handlers of the  *)
(* events in flight have returned.                                         *)
(***************************************************************************)

\* events the watcher dispatches in one life of the thread
MaxDispatch == 3
\* the count of ldap_sync_prepare calls stops here
MaxPrepares == 2

WatchFrame ==
    UNCHANGED <<poolVars, taskVars, serVars, ptrVars, connVars, syncVars,
                diffVars, convVars, zoneVars, reloadVars, zrVars>>

WatchInit ==
    /\ wthread = [pc |-> "start", ret_to |-> "none", remains |-> 0,
                  ret |-> "LDAP_SUCCESS", handle |-> "bound",
                  ndisp |-> 0, prepares |-> 0,
                  sync_state |-> "init", files |-> FALSE]
    /\ destroy = [pc |-> "idle", exiting |-> FALSE, woke |-> "none"]
    /\ inflight = 0

\* ldap_sync_prepare, first lines: sync_state_reset(inst->sctx) and
\* cleanup_files(inst), which removes the zone and journal files of the
\* zones of the register
prepare_sync_state_mutant(state) == state
prepare_sync_state(state) == "init"
prepare_files(files) == FALSE

\* ldap_syncrepl_watcher: ldap_pool_getconnection, then the test of
\* while (!inst->exiting) and, inside the loop, the call of
\* ldap_sync_prepare up to its while (conn->handle == NULL)
watcher_loop ==
    /\ wthread.pc \in {"start", "loop"}
    /\ wthread' =
         IF wthread.pc = "start" THEN [wthread EXCEPT !.pc = "loop"]
         ELSE IF destroy.exiting THEN [wthread EXCEPT !.pc = "cleanup"]
         ELSE [wthread EXCEPT
                 !.pc = "prepare",
                 !.prepares = IF @ < MaxPrepares THEN @ + 1 ELSE @,
                 !.sync_state = prepare_sync_state(@),
                 !.files = prepare_files(@)]
    /\ UNCHANGED <<destroy, inflight>>
    /\ WatchFrame

\* ldap_sync_prepare: while (conn->handle == NULL) { CHECK_EXIT;
\* sane_sleep(reconnect_interval) ... }, else the session is set up and
\* ldap_sync_init sends the search; a failure of ldap_sync_init clears the
\* handle and continues the outer loop
watcher_sync_prepare(init_ok) ==
    /\ wthread.pc = "prepare"
    /\ wthread' =
         IF wthread.handle = "null"
         THEN IF destroy.exiting
              THEN [wthread EXCEPT !.pc = "sleep_test", !.remains = 1,
                                   !.ret_to = "loop"]
              ELSE [wthread EXCEPT !.pc = "sleep_test", !.remains = 1,
                                   !.ret_to = "reconnect"]
         ELSE IF init_ok
              THEN [wthread EXCEPT !.pc = "poll_test",
                                   !.ret = "LDAP_SUCCESS"]
              ELSE [wthread EXCEPT !.pc = "loop", !.handle = "null"]
    /\ UNCHANGED <<destroy, inflight>>
    /\ WatchFrame

\* sane_sleep: the test of while (remains && !inst->exiting)
sane_sleep_test ==
    /\ wthread.pc = "sleep_test"
    /\ wthread' =
         IF wthread.remains > 0 /\ ~destroy.exiting
         THEN [wthread EXCEPT !.pc = "sleep_call"]
         ELSE [wthread EXCEPT !.pc = wthread.ret_to, !.ret_to = "none",
                              !.remains = 0]
    /\ UNCHANGED <<destroy, inflight>>
    /\ WatchFrame

\* sane_sleep: sleep(remains) returns 0 when the time has passed
sane_sleep_expired ==
    /\ wthread.pc = "sleeping"
    /\ wthread' = [wthread EXCEPT !.pc = "sleep_test", !.remains = 0]
    /\ UNCHANGED <<destroy, inflight>>
    /\ WatchFrame

\* ldap_sync_prepare after sane_sleep: ISC_R_SHUTTINGDOWN when exiting
\* (the watcher then sleeps one second and continues), else
\* handle_connection_error(inst, conn, ISC_TRUE)
watcher_reconnect(bound) ==
    /\ wthread.pc = "reconnect"
    /\ wthread' =
         IF destroy.exiting
         THEN [wthread EXCEPT !.pc = "sleep_test", !.remains = 1,
                              !.ret_to = "loop"]
         ELSE [wthread EXCEPT !.pc = "prepare",
                              !.handle = IF bound THEN "bound" ELSE "null"]
    /\ UNCHANGED <<destroy, inflight>>
    /\ WatchFrame

\* ldap_syncrepl_watcher: the test of
\* while (!inst->exiting && ret == LDAP_SUCCESS) before ldap_sync_poll
watcher_poll_test ==
    /\ wthread.pc = "poll_test"
    /\ wthread' = [wthread EXCEPT
                     !.pc = IF ~destroy.exiting /\ wthread.ret = "LDAP_SUCCESS"
                            THEN "poll_call" ELSE "loop"]
    /\ UNCHANGED <<destroy, inflight>>
    /\ WatchFrame

\* the thread enters sleep(remains), or ldap_result below ldap_sync_poll,
\* and blocks
watcher_block ==
    /\ wthread.pc \in {"sleep_call", "poll_call"}
    /\ wthread' = [wthread EXCEPT
                     !.pc = IF wthread.pc = "sleep_call" THEN "sleeping"
                            ELSE "polling"]
    /\ UNCHANGED <<destroy, inflight>>
    /\ WatchFrame

\* ldap_sync_poll (ls_timeout = -1) receives an entry and calls
\* ldap_sync_search_entry: return at once when exiting, else
\* sync_concurr_limit_wait
watcher_poll_entry ==
    /\ wthread.pc = "polling"
    /\ wthread.ndisp < MaxDispatch
    /\ wthread' = [wthread EXCEPT
                     !.pc = IF destroy.exiting THEN "poll_test"
                            ELSE "concurr_wait",
                     !.ndisp = @ + 1]
    /\ UNCHANGED <<destroy, inflight>>
    /\ WatchFrame

\* sync_concurr_limit_wait returns with a permit; syncrepl_update posts
\* the event and ldap_sync_poll returns LDAP_SUCCESS
watcher_concurr_wait ==
    /\ wthread.pc = "concurr_wait"
    /\ inflight < ConcurrLimit
    /\ inflight' = inflight + 1
    /\ wthread' = [wthread EXCEPT !.pc = "poll_test"]
    /\ UNCHANGED destroy
    /\ WatchFrame

\* ldap_sync_poll receives refresh-done and calls ldap_sync_intermediate:
\* return at once when exiting, else sync_barrier_wait
watcher_poll_intermediate ==
    /\ wthread.pc = "polling"
    /\ wthread.ndisp < MaxDispatch
    /\ wthread' = [wthread EXCEPT
                     !.pc = IF destroy.exiting THEN "poll_test"
                            ELSE "barrier_wait",
                     !.ndisp = @ + 1]
    /\ UNCHANGED <<destroy, inflight>>
    /\ WatchFrame

\* sync_barrier_wait returns when the tasks have handled their events;
\* the sync state is finished then
watcher_barrier_wait ==
    /\ wthread.pc = "barrier_wait"
    /\ inflight = 0
    /\ wthread' = [wthread EXCEPT !.pc = "poll_test",
                                  !.sync_state = "finished"]
    /\ UNCHANGED <<destroy, inflight>>
    /\ WatchFrame

\* ldap_sync_poll fails (the server or the link is gone):
\* conn->handle = NULL unless exiting
watcher_poll_failed ==
    /\ wthread.pc = "polling"
    /\ wthread' = [wthread EXCEPT
                     !.pc = "poll_test", !.ret = "LDAP_SERVER_DOWN",
                     !.handle = IF destroy.exiting THEN @ ELSE "null"]
    /\ UNCHANGED <<destroy, inflight>>
    /\ WatchFrame

\* update_zone, update_config, update_record: the handler of an event in
\* flight returns and calls sync_concurr_limit_signal; it has left the
\* files of its zone on disk
handler_returns ==
    /\ inflight > 0
    /\ inflight' = inflight - 1
    /\ wthread' = [wthread EXCEPT !.files = TRUE]
    /\ UNCHANGED destroy
    /\ WatchFrame

\* ldap_syncrepl_watcher, cleanup: ldap_sync_cleanup and
\* ldap_pool_putconnection; the thread ends
watcher_cleanup ==
    /\ wthread.pc = "cleanup"
    /\ wthread' = [wthread EXCEPT !.pc = "done", !.handle = "released"]
    /\ UNCHANGED <<destroy, inflight>>
    /\ WatchFrame

\* destroy_ldap_instance: ldap_inst->exiting = ISC_TRUE
destroy_set_exiting ==
    /\ destroy.pc = "idle"
    /\ destroy' = [destroy EXCEPT !.pc = "exiting", !.exiting = TRUE]
    /\ UNCHANGED <<wthread, inflight>>
    /\ WatchFrame

\* destroy_ldap_instance: pthread_kill(watcher, SIGUSR1); noop_handler
\* runs in the watcher thread, and a sleep() or ldap_result() it is
\* blocked in returns early
destroy_pthread_kill ==
    /\ destroy.pc = "exiting"
    /\ destroy' = [destroy EXCEPT !.pc = "join", !.woke = wthread.pc]
    /\ wthread' =
         IF wthread.pc = "sleeping"
         THEN [wthread EXCEPT !.pc = "sleep_test"]
         ELSE IF wthread.pc = "polling"
         THEN [wthread EXCEPT !.pc = "poll_test",
                              !.ret = "LDAP_SERVER_DOWN"]
         ELSE wthread
    /\ UNCHANGED inflight
    /\ WatchFrame

\* destroy_ldap_instance: isc_thread_join returns
destroy_thread_join ==
    /\ destroy.pc = "join"
    /\ wthread.pc = "done"
    /\ destroy' = [destroy EXCEPT !.pc = "joined"]
    /\ UNCHANGED <<wthread, inflight>>
    /\ WatchFrame

NextWatch ==
    \/ watcher_loop
    \/ \E init_ok \in BOOLEAN : watcher_sync_prepare(init_ok)
    \/ sane_sleep_test
    \/ sane_sleep_expired
    \/ \E bound \in BOOLEAN : watcher_reconnect(bound)
    \/ watcher_poll_test
    \/ watcher_block
    \/ watcher_poll_entry
    \/ watcher_concurr_wait
    \/ watcher_poll_intermediate
    \/ watcher_barrier_wait
    \/ watcher_poll_failed
    \/ handler_returns
    \/ watcher_cleanup
    \/ destroy_set_exiting
    \/ destroy_pthread_kill
    \/ destroy_thread_join

(***************************************************************************)
(* The difference between a database node and a directory entry            *)
(*                                                                         *)
(* diff_ldap_rbtdb for one owner name: the rdatasets of the node become    *)
(* DEL tuples, the rdatalists of the entry ADD tuples, each appended with  *)
(* dns_diff_appendminimal, which drops a tuple together with an earlier    *)
(* one of the same type, TTL and rdata.  The values of an rdatalist come   *)
(* from the attribute values of the entry and may repeat.                  *)
(***************************************************************************)

\* rdata values per type, and values in one rdatalist
MaxRdata == 2
MaxListLen == 2

RdTypes == <<"A", "TXT">>
RdVals == 1..MaxRdata
Ttls == {100, 200}

DiffFrame ==
    UNCHANGED <<poolVars, taskVars, serVars, ptrVars, connVars, syncVars,
                watchVars, convVars, zoneVars, reloadVars, zrVars>>

\* the rdatasets a node can hold for one type (no values: no rdataset)
RbtSets ==
    {[ttl |-> 0, vals |-> {}]} \cup
    {[ttl |-> t, vals |-> v] : t \in Ttls, v \in (SUBSET RdVals) \ {{}}}
\* the rdatalists an entry can give for one type (no values: no rdatalist)
LdapLists ==
    {[ttl |-> 0, vals |-> << >>]} \cup
    {[ttl |-> t, vals |-> v] : t \in Ttls,
        v \in UNION {[1..n -> RdVals] : n \in 1..MaxListLen}}

\* the records (type, ttl, rdata) of a node and of an entry
rbt_records(rbt) ==
    UNION {{[type |-> RdTypes[i], ttl |-> rbt[i].ttl, rdata |-> r] :
               r \in rbt[i].vals} : i \in DOMAIN RdTypes}
ldap_records(l) ==
    UNION {{[type |-> RdTypes[i], ttl |-> l[i].ttl, rdata |-> l[i].vals[k]] :
               k \in DOMAIN l[i].vals} : i \in DOMAIN RdTypes}

DiffInit ==
    /\ rbt_rds \in [DOMAIN RdTypes -> RbtSets]
    /\ ldap_rdatalist \in [DOMAIN RdTypes -> LdapLists]
    /\ diff = << >>
    /\ rbt_after = {}
    /\ dpc = "input"

\* dns_diff_appendminimal(diff, &tp): an earlier tuple of the same name,
\* rdata (with its type) and TTL is unlinked; the new tuple is dropped with
\* it when the operations differ and appended otherwise
dns_diff_appendminimal(d, tp) ==
    LET hits == {i \in DOMAIN d : /\ d[i].type = tp.type
                                  /\ d[i].ttl = tp.ttl
                                  /\ d[i].rdata = tp.rdata}
    IN  IF hits = {} THEN Append(d, tp)
        ELSE LET i == CHOOSE h \in hits : \A g \in hits : h <= g
                 rest == SubSeq(d, 1, i - 1) \o SubSeq(d, i + 1, Len(d))
             IN  IF d[i].op = tp.op THEN Append(rest, tp) ELSE rest

\* rdatalist_to_diff: one tuple per rdata of the list, in order
RECURSIVE rdatalist_to_diff(_, _, _, _, _)
rdatalist_to_diff(op, type, ttl, rds, d) ==
    IF rds = << >> THEN d
    ELSE rdatalist_to_diff(op, type, ttl, Tail(rds),
             dns_diff_appendminimal(d, [op |-> op, type |-> type,
                                        ttl |-> ttl, rdata |-> Head(rds)]))

\* rdataset_to_diff: one tuple per rdata of the rdataset, in the order of
\* dns_rdataset_first / dns_rdataset_next
rdataset_to_diff_mutant(op, type, rds, d) == d
rdataset_to_diff(op, type, rds, d) ==
    LET RECURSIVE order(_)
        order(S) == IF S = {} THEN << >>
                    ELSE LET m == CHOOSE x \in S : \A y \in S : x <= y
                         IN  <<m>> \o order(S \ {m})
    IN  rdatalist_to_diff(op, type, rds.ttl, order(rds.vals), d)

\* diff_ldap_rbtdb: DEL for every rdataset of the node, then ADD for every
\* rdatalist of the entry
diff_ldap_rbtdb(ldap, rbt) ==
    LET RECURSIVE dels(_, _)
        dels(i, d) ==
            IF i > Len(RdTypes) THEN d
            ELSE dels(i + 1, rdataset_to_diff("DNS_DIFFOP_DEL", RdTypes[i],
                                              rbt[i], d))
        RECURSIVE adds(_, _)
        adds(i, d) ==
            IF i > Len(RdTypes) THEN d
            ELSE adds(i + 1, rdatalist_to_diff("DNS_DIFFOP_ADD", RdTypes[i],
                                               ldap[i].ttl, ldap[i].vals, d))
    IN  adds(1, dels(1, << >>))

\* dns_diff_apply: the tuples of the diff applied in order to the records
\* of the node
RECURSIVE dns_diff_apply(_, _)
dns_diff_apply(d, db) ==
    IF d = << >> THEN db
    ELSE LET tp == Head(d)
             rec == [type |-> tp.type, ttl |-> tp.ttl, rdata |-> tp.rdata]
         IN  dns_diff_apply(Tail(d),
                 IF tp.op = "DNS_DIFFOP_DEL" THEN db \ {rec}
                 ELSE db \cup {rec})

\* update_record: diff_ldap_rbtdb for the node and the entry
diff_compute ==
    /\ dpc = "input"
    /\ diff' = diff_ldap_rbtdb(ldap_rdatalist, rbt_rds)
    /\ dpc' = "diffed"
    /\ UNCHANGED <<rbt_rds, ldap_rdatalist, rbt_after>>
    /\ DiffFrame

\* update_record: dns_diff_apply of the diff to the node
diff_apply ==
    /\ dpc = "diffed"
    /\ rbt_after' = dns_diff_apply(diff, rbt_records(rbt_rds))
    /\ dpc' = "applied"
    /\ UNCHANGED <<rbt_rds, ldap_rdatalist, diff>>
    /\ DiffFrame

NextDiff ==
    \/ diff_compute
    \/ diff_apply

(***************************************************************************)
(* Names, DNs and escaping (ldap_convert.c)                                *)
(*                                                                         *)
(* Strings are sequences of byte values.  dns_to_ldap_dn_escape is         *)
(* computed index by index as the code does; dns_name_tostring,            *)
(* dns_name_fromtext and ldap_str2dn are the library conversions the code  *)
(* calls, with the escaping rules of master files and of LDAPv3 DNs.  A    *)
(* name is the sequence of its labels, the root label left out.            *)
(***************************************************************************)

\* bytes in an input string of dns_to_ldap_dn_escape, labels of the part
\* of a name below its zone, bytes in one label
MaxStrLen == 4
MaxRelLabels == 2
MaxLabelLen == 2

\* 'a' '.' '\' ',' '1' '2' '9' ':' and the byte 0xe9
StrBytes == {97, 46, 92, 44, 49, 50, 57, 58, 233}
\* 'a' 'B' '.' '\' '@' ' ' ','
LabelBytes == {97, 66, 46, 92, 64, 32, 44}
\* the zone "z." and the root zone
ZoneZ == <<<<122>>>>
ConvOrigins == {ZoneZ, << >>}

ConvFrame ==
    UNCHANGED <<poolVars, taskVars, serVars, ptrVars, connVars, syncVars,
                watchVars, diffVars, zoneVars, reloadVars, zrVars>>

\* idnsName values at the head of a DN, and how many of them
DnValues == {<<97>>, <<98>>, <<122, 46>>}
MaxDnLen == 3

\* how the DN of a zone entry separates its RDNs: "," or ", "
DnSeparators == {",", ", "}

SeqsUpTo(S, n) == UNION {[1..k -> S] : k \in 0..n}

ConvInit ==
    /\ cin \in
         {[kind |-> "str", str |-> s, char_signed |-> b] :
             s \in SeqsUpTo(StrBytes, MaxStrLen), b \in BOOLEAN} \cup
         {[kind |-> "name", rel |-> r, zone |-> z, zr |-> g] :
             r \in SeqsUpTo(SeqsUpTo(LabelBytes, MaxLabelLen) \ {<< >>},
                            MaxRelLabels),
             z \in ConvOrigins, g \in (SUBSET ConvOrigins) \ {{}}} \cup
         {[kind |-> "dn", dn |-> d] : d \in SeqsUpTo(DnValues, MaxDnLen)} \cup
         {[kind |-> "split", rel |-> r, zone |-> z, zr |-> g, sep |-> s,
           caller |-> c] :
             r \in SeqsUpTo({<<97>>}, MaxRelLabels),
             z \in ConvOrigins, g \in (SUBSET ConvOrigins) \ {{}},
             s \in DnSeparators,
             c \in {"modify_ldap_common", "ldap_find_ptr"}}
    /\ cres = [done |-> FALSE]

\* isalnum(c) || c == '.' || c == '-' || c == '_' in the "C" locale
nice_symbol_mutant(c) == c # 92
nice_symbol(c) ==
    \/ c \in 48..57 \/ c \in 65..90 \/ c \in 97..122
    \/ c \in {46, 45, 95}

\* the two characters of "%02x" for a value in 0..255
Hex2(v) ==
    LET h(n) == IF n < 10 THEN 48 + n ELSE 87 + n
    IN  <<h(v \div 16), h(v % 16)>>

\* dns_to_ldap_dn_escape(mctx, dns_str, &ldap_name): [result, ldap_name];
\* char is signed or unsigned as the build has it, and
\* isc_string_printf(.., 4, "\\%02x", ascii_val) fails with ISC_R_NOSPACE
\* when the value does not print as two hexadecimal digits
dns_to_ldap_dn_escape(dns_str, char_signed) ==
    LET len == Len(dns_str)
        val(c) == IF char_signed /\ c >= 128 THEN c - 256 ELSE c
        RECURSIVE loop(_, _)
        emit(v, next, esc_name) ==
            IF v < 0 \/ v > 255
            THEN [result |-> "ISC_R_NOSPACE", ldap_name |-> "NULL"]
            ELSE loop(next, esc_name \o <<92>> \o Hex2(v))
        loop(i, esc_name) ==
            IF i > len
            THEN [result |-> "ISC_R_SUCCESS", ldap_name |-> esc_name]
            ELSE IF nice_symbol(dns_str[i])
            THEN loop(i + 1, Append(esc_name, dns_str[i]))
            ELSE IF dns_str[i] # 92
            THEN emit(val(dns_str[i]), i + 1, esc_name)
            ELSE IF ~(i + 1 <= len)
            THEN [result |-> "DNS_R_BADESCAPE", ldap_name |-> "NULL"]
            ELSE IF dns_str[i + 1] \in 48..57
            THEN IF ~(i + 3 <= len)
                 THEN [result |-> "DNS_R_BADESCAPE", ldap_name |-> "NULL"]
                 ELSE emit(100 * (dns_str[i + 1] - 48)
                             + 10 * (val(dns_str[i + 2]) - 48)
                             + (val(dns_str[i + 3]) - 48),
                           i + 4, esc_name)
            ELSE emit(val(dns_str[i + 1]), i + 2, esc_name)
    IN  loop(1, << >>)

\* dns_name_tostring of a sequence of labels without the root label:
\* master-file text, "\X" for the special characters, "\DDD" for bytes
\* that do not print
dns_name_tostring(labels) ==
    LET dec(c) == <<92, 48 + (c \div 100), 48 + ((c \div 10) % 10),
                    48 + (c % 10)>>
        byte(c) == IF c \in {34, 40, 41, 46, 59, 92, 64, 36} THEN <<92, c>>
                   ELSE IF c > 32 /\ c < 127 THEN <<c>>
                   ELSE dec(c)
        RECURSIVE label(_)
        label(l) == IF l = << >> THEN << >>
                    ELSE byte(Head(l)) \o label(Tail(l))
        RECURSIVE name(_)
        name(ls) == IF ls = << >> THEN << >>
                    ELSE IF Len(ls) = 1 THEN label(ls[1])
                    ELSE label(ls[1]) \o <<46>> \o name(Tail(ls))
    IN  name(labels)

\* ldap_str2dn for one attribute value: "\HH" stands for the byte HH
ldap_str2dn(value) ==
    LET d(c) == IF c \in 48..57 THEN c - 48 ELSE c - 87
        RECURSIVE dec(_)
        dec(v) == IF v = << >> THEN << >>
                  ELSE IF Head(v) = 92 /\ Len(v) >= 3
                  THEN <<16 * d(v[2]) + d(v[3])>> \o dec(SubSeq(v, 4, Len(v)))
                  ELSE <<Head(v)>> \o dec(Tail(v))
    IN  dec(value)

\* dns_name_fromtext(name, text, origin, 0, NULL): [ok, name]
dns_name_fromtext(text, origin) ==
    LET len == Len(text)
        bad == [ok |-> FALSE, name |-> << >>]
        RECURSIVE scan(_, _, _)
        scan(i, cur, labels) ==
            IF i > len
            THEN IF cur = << >> THEN bad
                 ELSE [ok |-> TRUE, name |-> Append(labels, cur) \o origin]
            ELSE IF text[i] = 46
            THEN IF cur = << >> THEN bad
                 ELSE IF i = len
                 THEN [ok |-> TRUE, name |-> Append(labels, cur)]
                 ELSE scan(i + 1, << >>, Append(labels, cur))
            ELSE IF text[i] # 92 THEN scan(i + 1, Append(cur, text[i]), labels)
            ELSE IF i + 1 > len THEN bad
            ELSE IF text[i + 1] \notin 48..57
            THEN scan(i + 2, Append(cur, text[i + 1]), labels)
            ELSE IF \/ i + 3 > len
                    \/ text[i + 2] \notin 48..57
                    \/ text[i + 3] \notin 48..57
            THEN bad
            ELSE LET v == 100 * (text[i + 1] - 48) + 10 * (text[i + 2] - 48)
                            + (text[i + 3] - 48)
                 IN  IF v > 255 THEN bad
                     ELSE scan(i + 4, Append(cur, v), labels)
    IN  IF text = <<46>> THEN [ok |-> TRUE, name |-> << >>]
        ELSE IF text = <<64>> THEN [ok |-> TRUE, name |-> origin]
        ELSE scan(1, << >>, << >>)

\* dns_name_equal / dns_name_issubdomain: labels compared without case
name_fold(n) ==
    [i \in DOMAIN n |->
        [k \in DOMAIN n[i] |->
            IF n[i][k] \in 65..90 THEN n[i][k] + 32 ELSE n[i][k]]]
name_issubdomain(n, o) ==
    /\ Len(n) >= Len(o)
    /\ SubSeq(name_fold(n), Len(n) - Len(o) + 1, Len(n)) = name_fold(o)

\* the idnsName value in the DN of a zone of the register
zone_dn_value(origin) == IF origin = << >> THEN <<46>>
                         ELSE dns_name_tostring(origin) \o <<46>>

\* dnsname_to_dn(zr, name, target): the idnsName values of the DN, the
\* first one; zr_get_zone_dn finds the deepest zone of the register at or
\* above the name
dnsname_to_dn(reg, name, char_signed) ==
    LET above == {o \in reg : name_issubdomain(name, o)}
    IN  IF above = {} THEN [result |-> "ISC_R_NOTFOUND", dn |-> << >>]
        ELSE
        LET zone == CHOOSE o \in above : \A p \in above : Len(p) <= Len(o)
            label_count == Len(name) - Len(zone)
            esc == dns_to_ldap_dn_escape(
                       dns_name_tostring(SubSeq(name, 1, label_count)),
                       char_signed)
        IN  IF label_count = 0
            THEN [result |-> "ISC_R_SUCCESS", dn |-> <<zone_dn_value(zone)>>]
            ELSE IF esc.result # "ISC_R_SUCCESS"
            THEN [result |-> esc.result, dn |-> << >>]
            ELSE [result |-> "ISC_R_SUCCESS",
                  dn |-> <<esc.ldap_name, zone_dn_value(zone)>>]

\* the loop over the RDNs of the DN: idx when it ends.  A third idnsName
\* leaves the loop through "break", like an RDN of another attribute
idnsname_idx(dn) == IF Len(dn) > 2 THEN 2 ELSE Len(dn)

\* dn_to_dnsname(mctx, dn_str, target, otarget) for a DN given by its
\* leading idnsName values: none, one (a zone entry) or two (a record)
dn_to_dnsname(dn) ==
    LET v(i) == ldap_str2dn(dn[i])
        fail(r) == [result |-> r, target |-> << >>, otarget |-> << >>]
        idx == idnsname_idx(dn)
    IN  IF idx <= 0 THEN fail("ISC_R_UNEXPECTEDEND")
        ELSE IF idx > 2 THEN fail("ISC_R_NOTIMPLEMENTED")
        ELSE IF idx = 1
        THEN LET n == dns_name_fromtext(v(1), << >>)
             IN  IF n.ok
                 THEN [result |-> "ISC_R_SUCCESS", target |-> n.name,
                       otarget |-> << >>]
                 ELSE fail("fromtext")
        ELSE LET o == dns_name_fromtext(v(2), << >>)
                 n == dns_name_fromtext(v(1), o.name)
             IN  IF ~o.ok \/ ~n.ok THEN fail("fromtext")
                 ELSE IF ~name_issubdomain(n.name, o.name)
                         \/ name_fold(n.name) = name_fold(o.name)
                 THEN fail("DNS_R_BADOWNERNAME")
                 ELSE [result |-> "ISC_R_SUCCESS", target |-> n.name,
                       otarget |-> o.name]

\* the DN of a zone entry as text: its RDNs, each with the separator that
\* follows it
zone_dn_text(origin, sep) ==
    <<[attr |-> "idnsName", value |-> zone_dn_value(origin), sep |-> sep],
      [attr |-> "cn", value |-> <<100, 110, 115>>, sep |-> ""]>>

\* dnsname_to_dn as text: "idnsName=" escaped_name ", " zone_dn
dnsname_to_dn_text(reg, name, sep) ==
    LET d == dnsname_to_dn(reg, name, TRUE)
        above == {o \in reg : name_issubdomain(name, o)}
        zone == CHOOSE o \in above : \A q \in above : Len(q) <= Len(o)
    IN  IF d.result # "ISC_R_SUCCESS" THEN [result |-> d.result, dn |-> << >>]
        ELSE [result |-> d.result,
              dn |-> IF Len(d.dn) = 2
                     THEN <<[attr |-> "idnsName", value |-> d.dn[1],
                             sep |-> ", "]>> \o zone_dn_text(zone, sep)
                     ELSE zone_dn_text(zone, sep)]

\* strstr(dn, ", "): the RDN the first ", " follows, 0 for NULL.  The
\* escaped values hold neither ',' nor ' '
strstr_sep(dn) ==
    IF \A i \in DOMAIN dn : dn[i].sep # ", " THEN 0
    ELSE CHOOSE i \in DOMAIN dn :
             dn[i].sep = ", " /\ \A j \in 1..(i - 1) : dn[j].sep # ", "

\* the idnsName values at the head of a DN text
leading_idnsnames(dn) ==
    LET n == IF \A i \in DOMAIN dn : dn[i].attr = "idnsName" THEN Len(dn)
             ELSE (CHOOSE i \in DOMAIN dn :
                      dn[i].attr # "idnsName"
                      /\ \A j \in 1..(i - 1) : dn[j].attr = "idnsName") - 1
    IN  [i \in 1..n |-> dn[i].value]

\* the zone of a name in the write-back path.  modify_ldap_common: zone_dn
\* is strstr(owner_dn, ", ") + 1, or owner_dn when strstr returns NULL;
\* ldap_find_ptr: strstr(ptr_dn, ", ") + 1 with no test for NULL, and the
\* pointer NULL + 1 then goes to dn_to_dnsname (the set of outcomes)
split_zone_name(reg, name, sep, caller) ==
    LET d == dnsname_to_dn_text(reg, name, sep)
        pos == strstr_sep(d.dn)
        zone_dn == IF pos = 0 THEN d.dn ELSE SubSeq(d.dn, pos + 1, Len(d.dn))
        z == dn_to_dnsname(leading_idnsnames(zone_dn))
        ret(r, n, u) == [done |-> TRUE, result |-> r, zone_name |-> n,
                         null_used |-> u]
    IN  IF d.result # "ISC_R_SUCCESS" THEN {ret(d.result, << >>, FALSE)}
        ELSE IF pos = 0 /\ caller = "ldap_find_ptr"
        THEN {ret("SIGSEGV", << >>, TRUE),
              ret("ISC_R_UNEXPECTED", << >>, TRUE)}
        ELSE {ret(z.result, z.target, FALSE)}

\* one call of dns_to_ldap_dn_escape, of dn_to_dnsname, of dnsname_to_dn
\* followed by dn_to_dnsname, or of the split of a DN in the write-back path
conv_call ==
    /\ ~cres.done
    /\ cres' \in
         IF cin.kind = "split"
         THEN split_zone_name(cin.zr, cin.rel \o cin.zone, cin.sep,
                              cin.caller)
         ELSE IF cin.kind = "str"
         THEN LET r == dns_to_ldap_dn_escape(cin.str, cin.char_signed)
              IN  {[done |-> TRUE, result |-> r.result,
                    ldap_name |-> r.ldap_name]}
         ELSE IF cin.kind = "dn"
         THEN LET n == dn_to_dnsname(cin.dn)
              IN  {[done |-> TRUE, result |-> n.result, target |-> n.target,
                    otarget |-> n.otarget]}
         ELSE LET d == dnsname_to_dn(cin.zr, cin.rel \o cin.zone, TRUE)
                  n == IF d.result = "ISC_R_SUCCESS" THEN dn_to_dnsname(d.dn)
                       ELSE [result |-> d.result, target |-> << >>]
              IN  {[done |-> TRUE, result |-> d.result, dn |-> d.dn,
                    back |-> n.result, target |-> n.target]}
    /\ UNCHANGED cin
    /\ ConvFrame

NextConv ==
    conv_call

(***************************************************************************)
(* Zones: register, view, forward table and files (ldap_helper.c,          *)
(* zone_register.c)                                                        *)
(*                                                                         *)
(* update_zone runs on the one task of the instance, so the handlers of    *)
(* zone entries run one after the other; each action is the dispatch of    *)
(* one event by syncrepl_update together with its handler.  A zone object  *)
(* lives while the register or the zone table of the view refers to it:    *)
(* the handler drops its own reference on return.  A library call that     *)
(* can fail is a step that the input of the action names as failing.       *)
(***************************************************************************)

\* the root zone and the zone "f."
ZRoot == << >>
ZFoo == <<<<102>>>>
ZOrigins == {ZRoot, ZFoo}
\* entries below the base, by the idnsName values of their DN:
\* idnsName=.  idnsName=f.  idnsName=f,idnsName=.  idnsName=w,idnsName=f.
ZoneDns == {<<<<46>>>>, <<<<102, 46>>>>}
RecordDns == {<<<<102>>, <<46>>>>, <<<<119>>, <<102, 46>>>>}

ZoneFrame ==
    UNCHANGED <<poolVars, taskVars, serVars, ptrVars, connVars, syncVars,
                watchVars, diffVars, convVars, reloadVars, zrVars>>

\* idnsForwardPolicy, and idnsForwarders: no value, only values that do
\* not parse, or a valid one
FwdSettings == {<<"first", "valid">>, <<"only", "valid">>,
                <<"first", "absent">>, <<"first", "invalid">>,
                <<"none", "valid">>, <<"invalid", "valid">>}
\* the steps of ldap_parse_master_zoneentry after configure_zone_forwarders
\* ("acl": the settings and the ACLs, "diff": the parsing of the entry
\* and the diff)
ZoneSteps == <<"create_zone", "configure_paths", "zr_add_zone", "acl",
               "publish", "diff", "journal", "apply", "load">>
StepFails == {"none", "fwd_delete", "fwd_add"}
                 \cup {ZoneSteps[i] : i \in DOMAIN ZoneSteps}
\* the calls of ldap_delete_zone2 that can fail
DelFails == {"none", "fwd_delete", "unmount", "zr_del"}
\* a failing step of the handler and a failing call of ldap_delete_zone2:
\* one of them, or a failed step with a failing roll-back
ZoneFails == {<<f, "none">> : f \in StepFails}
                 \cup {<<"none", g>> : g \in DelFails}
                 \cup {<<"acl", g>> : g \in DelFails}

\* the names of the entries
EntryNames == [dn \in ZoneDns \cup RecordDns |-> dn_to_dnsname(dn)]

NoZoneOp == [op |-> "none"]
\* inst->orig_global_forwarders: named.conf has no global forwarders
orig_global_forwarders == "none"

ZoneInit ==
    /\ zr = {}
    /\ zview = {}
    /\ zfiles = {}
    /\ fwdtable = [o \in ZOrigins |-> "absent"]
    /\ fwd_register = {}
    /\ zsync = "init"
    /\ zdown = "running"
    /\ lastZ = NoZoneOp

zone_state ==
    [zr |-> zr, zview |-> zview, zfiles |-> zfiles,
     fwdtable |-> fwdtable, fwd_register |-> fwd_register]

\* configure_zone_forwarders(entry, inst, name): the result, the forward
\* table afterwards and whether the cache of the view was flushed
configure_zone_forwarders(tbl, name, policy, fwds, f) ==
    LET is_global_config == name = ZRoot
        use_global == is_global_config /\ policy \in {"first", "only"}
                      /\ fwds = "absent"
        fwdpolicy == IF ~use_global THEN policy
                     ELSE IF orig_global_forwarders = "none" THEN "none"
                     ELSE "first"
        addrs == IF policy = "none" THEN "empty"
                 ELSE IF use_global
                 THEN (IF orig_global_forwarders = "fwd" THEN "valid"
                       ELSE "empty")
                 ELSE IF fwds = "valid" THEN "valid" ELSE "empty"
        new == IF fwdpolicy = "none" THEN "none" ELSE "fwd"
        \* cleanup with fwdtbl_deletion_requested
        cleanup(res) ==
            IF f = "fwd_delete"
            THEN [result |-> "ISC_R_FAILURE", fwdtable |-> tbl,
                  flushed |-> TRUE, failed |-> TRUE]
            ELSE [result |-> res,
                  fwdtable |-> [tbl EXCEPT ![name] = "absent"],
                  flushed |-> TRUE, failed |-> res = "ISC_R_FAILURE"]
        done == IF fwdpolicy = "none" THEN "ISC_R_DISABLED"
                ELSE "ISC_R_SUCCESS"
    IN  IF policy = "invalid" THEN cleanup("ISC_R_UNEXPECTEDTOKEN")
        ELSE IF policy # "none" /\ fwds = "absent" /\ ~is_global_config
        THEN cleanup("ISC_R_DISABLED")
        ELSE IF fwdpolicy # "none" /\ addrs = "empty"
        THEN cleanup("ISC_R_UNEXPECTEDTOKEN")
        ELSE IF tbl[name] = new
        THEN [result |-> done, fwdtable |-> tbl, flushed |-> FALSE,
              failed |-> FALSE]
        ELSE IF f \in {"fwd_delete", "fwd_add"}
        THEN cleanup("ISC_R_FAILURE")
        ELSE [result |-> done, fwdtable |-> [tbl EXCEPT ![name] = new],
              flushed |-> TRUE, failed |-> FALSE]

\* delete_bind_zone(zt, &zone): the result of dns_zt_unmount, which is
\* returned unless it is ISC_R_NOTFOUND, and whether the zone left the view
delete_bind_zone_mutant(g) ==
    [result |-> "ISC_R_SUCCESS", unmounted |-> g # "unmount"]
delete_bind_zone(g) ==
    [result |-> IF g = "unmount" THEN "ISC_R_FAILURE" ELSE "ISC_R_SUCCESS",
     unmounted |-> g # "unmount"]

\* ldap_delete_zone2(inst, name, lock, preserve_forwarding); failed says
\* whether the call that g names was made
ldap_delete_zone2(s, name, preserve_forwarding, g) ==
    LET s1 == IF preserve_forwarding THEN s
              ELSE [s EXCEPT !.fwdtable[name] = "absent",
                             !.fwd_register = @ \ {name}]
        ret(res, st, fl, made) ==
            [result |-> res, s |-> st, flushed |-> fl, failed |-> made]
    IN  IF ~preserve_forwarding /\ g = "fwd_delete"
        THEN ret("ISC_R_FAILURE", s, FALSE, TRUE)
        ELSE IF name \notin s.zr
        THEN ret("ISC_R_SUCCESS", s1, TRUE, FALSE)
        ELSE LET d == delete_bind_zone(g)
                 s2 == IF d.unmounted THEN [s1 EXCEPT !.zview = @ \ {name}]
                       ELSE s1
             IN  IF d.result # "ISC_R_SUCCESS"
                 THEN ret("ISC_R_FAILURE", s2, FALSE, TRUE)
                 ELSE IF g = "zr_del"
                 THEN ret("ISC_R_FAILURE", s2, FALSE, TRUE)
                 ELSE ret("ISC_R_SUCCESS", [s2 EXCEPT !.zr = @ \ {name}],
                          FALSE, g = "unmount")

\* ldap_parse_master_zoneentry(entry, inst, task) for the zone 'name':
\* data_changed says whether the entry differs from the database in more
\* than the serial, f is the step that fails, g the call that fails in
\* ldap_delete_zone2
ldap_parse_master_zone(s, name, policy, fwds, data_changed, f, g) ==
    LET fw == configure_zone_forwarders(s.fwdtable, name, policy, fwds, f)
        s0 == [s EXCEPT !.fwdtable = fw.fwdtable]
        idx(st) == CHOOSE i \in DOMAIN ZoneSteps : ZoneSteps[i] = st
        registered == name \in s.zr
        finished == zsync = "finished"
        \* a SOA added without a deletion counts as changed data
        dc == ~registered \/ data_changed
        nonempty == dc \/ ~finished
        applicable(st) ==
            CASE st \in {"create_zone", "configure_paths", "zr_add_zone"}
                   -> ~registered
              [] st = "publish" -> ~registered /\ finished
              [] st = "journal" -> registered /\ finished /\ nonempty
              [] st = "apply" -> nonempty
              [] st = "load" -> finished /\ dc
              [] OTHER -> TRUE
        hit == f \in {ZoneSteps[i] : i \in DOMAIN ZoneSteps} /\ applicable(f)
        done(st) == applicable(st) /\ (~hit \/ idx(st) < idx(f))
        new_zone == done("zr_add_zone")
        configured == (~hit \/ f = "load") /\ (~new_zone \/ dc)
        s2 == [s0 EXCEPT
                 !.zfiles = IF done("journal") THEN @ \cup {name}
                            ELSE IF done("configure_paths") THEN @ \ {name}
                            ELSE @,
                 !.zr = IF new_zone THEN @ \cup {name} ELSE @,
                 !.zview = IF done("publish") THEN @ \cup {name} ELSE @]
        rb == ldap_delete_zone2(s2, name, FALSE, g)
        sw == ldap_delete_zone2(s0, name, TRUE, g)
        ret(res, st, fl, early, step, gfailed) ==
            [result |-> res, s |-> st, flushed |-> fl, early |-> early,
             created |-> ~early /\ done("create_zone"), step |-> step,
             ffailed |-> fw.failed \/ step # "none", gfailed |-> gfailed]
    IN  IF fw.result = "ISC_R_SUCCESS"
        THEN ret(sw.result, sw.s, fw.flushed \/ sw.flushed, TRUE, "none",
                 sw.failed)
        ELSE IF fw.result # "ISC_R_DISABLED"
        THEN ret(fw.result, s0, fw.flushed, TRUE, "none", FALSE)
        ELSE IF new_zone /\ ~configured
        THEN ret(rb.result, rb.s, fw.flushed \/ rb.flushed, FALSE,
                 IF hit THEN f ELSE "none", rb.failed)
        ELSE ret(IF hit THEN "ISC_R_FAILURE" ELSE "ISC_R_SUCCESS", s2,
                 fw.flushed, FALSE, IF hit THEN f ELSE "none", FALSE)

\* ldap_parse_fwd_zoneentry(entry, inst)
ldap_parse_fwd_zoneentry(s, name, policy, fwds, f) ==
    LET fw == configure_zone_forwarders(s.fwdtable, name, policy, fwds, f)
        s0 == [s EXCEPT !.fwdtable = fw.fwdtable]
    IN  IF fw.result \notin {"ISC_R_DISABLED", "ISC_R_SUCCESS"}
        THEN [result |-> fw.result, s |-> s0, failed |-> fw.failed]
        ELSE [result |-> "ISC_R_SUCCESS",
              s |-> [s0 EXCEPT !.fwd_register = @ \cup {name}],
              failed |-> fw.failed]

\* syncrepl_update: the class of a deleted entry that is not the base
delete_class_mutant(dn) ==
    LET n == EntryNames[dn]
    IN  IF n.target \in fwd_register THEN "forward"
        ELSE IF n.target \in zr THEN "master"
        ELSE "rr"
delete_class(dn) ==
    LET n == EntryNames[dn]
    IN  IF n.target \in fwd_register THEN "forward"
        ELSE IF n.otarget = ZRoot THEN "master"
        ELSE "rr"

zone_set(s) ==
    /\ zr' = s.zr
    /\ zview' = s.zview
    /\ zfiles' = s.zfiles
    /\ fwdtable' = s.fwdtable
    /\ fwd_register' = s.fwd_register

\* an add or modify event of an active idnsZone entry: update_zone and
\* ldap_parse_master_zoneentry
update_zone_master(dn, fs, data_changed, fl) ==
    /\ zdown = "running"
    /\ LET name == EntryNames[dn].target
           r == ldap_parse_master_zone(zone_state, name, fs[1], fs[2],
                                       data_changed, fl[1], fl[2])
       IN  \* a call that is not made cannot fail
           /\ fl[1] # "none" => r.ffailed
           /\ fl[2] # "none" => r.gfailed
           /\ zone_set(r.s)
           /\ lastZ' = [op |-> "master", name |-> name, policy |-> fs[1],
                        fwds |-> fs[2], flushed |-> r.flushed,
                        early |-> r.early, created |-> r.created,
                        step |-> r.step,
                        failing |-> fl # <<"none", "none">>,
                        was_master |-> (name \in zr /\ name \in zview
                                        /\ name \in zfiles)]
    /\ UNCHANGED <<zsync, zdown>>
    /\ ZoneFrame

\* an add or modify event of an active idnsForwardZone entry
update_zone_forward(dn, fs, f) ==
    /\ zdown = "running"
    /\ LET name == EntryNames[dn].target
           r == ldap_parse_fwd_zoneentry(zone_state, name, fs[1], fs[2], f)
       IN  /\ f # "none" => r.failed
           /\ zone_set(r.s)
           /\ lastZ' = [op |-> "forward", name |-> name,
                        result |-> r.result]
    /\ UNCHANGED <<zsync, zdown>>
    /\ ZoneFrame

\* an add or modify event of a zone entry with idnsZoneActive not TRUE:
\* update_zone calls ldap_delete_zone
update_zone_inactive(dn, g) ==
    /\ zdown = "running"
    /\ LET name == EntryNames[dn].target
           r == ldap_delete_zone2(zone_state, name, FALSE, g)
       IN  /\ g # "none" => r.failed
           /\ zone_set(r.s)
           /\ lastZ' = [op |-> "inactive", name |-> name,
                        result |-> r.result]
    /\ UNCHANGED <<zsync, zdown>>
    /\ ZoneFrame

\* a delete event for an entry below the base: syncrepl_update finds the
\* class; update_zone deletes the zone of the name, update_record only
\* touches the records of the node
syncrepl_delete(dn, g) ==
    /\ zdown = "running"
    /\ LET n == EntryNames[dn]
           class == delete_class(dn)
           r == IF class = "rr"
                THEN [result |-> "ISC_R_SUCCESS", s |-> zone_state,
                      failed |-> FALSE]
                ELSE ldap_delete_zone2(zone_state, n.target, FALSE, g)
       IN  /\ g # "none" => r.failed
           /\ zone_set(r.s)
           /\ lastZ' = [op |-> "delete", dn |-> dn, class |-> class,
                        was_forward |-> n.target \in fwd_register,
                        was_zone |-> n.target \in zr,
                        zr_before |-> zr]
    /\ UNCHANGED <<zsync, zdown>>
    /\ ZoneFrame

\* the end of the initial refresh: activate_zones publishes every zone of
\* the register
zone_activate ==
    /\ zdown = "running"
    /\ zsync = "init"
    /\ zsync' = "finished"
    /\ zview' = zview \cup zr
    /\ lastZ' = [op |-> "activate"]
    /\ UNCHANGED <<zr, zfiles, fwdtable, fwd_register, zdown>>
    /\ ZoneFrame

\* ldap_sync_prepare after a reconnect: cleanup_files removes the files of
\* every zone of the register and the state goes back to init
zone_sync_prepare ==
    /\ zdown = "running"
    /\ zsync = "finished"
    /\ zsync' = "init"
    /\ zfiles' = zfiles \ zr
    /\ lastZ' = [op |-> "prepare"]
    /\ UNCHANGED <<zr, zview, fwdtable, fwd_register, zdown>>
    /\ ZoneFrame

\* zr_destroy(&zr): ldap_delete_zone2 for every zone of the register; a
\* failure ends the process (RUNTIME_CHECK)
zr_destroy(g) ==
    /\ zdown = "running"
    /\ LET RECURSIVE loop(_)
           loop(s) ==
               IF s.zr = {} THEN [ok |-> TRUE, s |-> s]
               ELSE LET name == CHOOSE o \in s.zr :
                                    \A p \in s.zr : Len(o) <= Len(p)
                        r == ldap_delete_zone2(s, name, FALSE, g)
                    IN  IF r.result # "ISC_R_SUCCESS"
                        THEN [ok |-> FALSE, s |-> r.s]
                        ELSE loop(r.s)
           d == loop(zone_state)
       IN  /\ g # "none" => ~d.ok
           /\ zone_set(d.s)
           /\ zdown' = IF d.ok THEN "destroyed" ELSE "aborted"
           /\ lastZ' = [op |-> "destroy"]
    /\ UNCHANGED zsync
    /\ ZoneFrame

\* the entries of the zone "f.", with every failing call
NextZone ==
    \/ \E fs \in FwdSettings, c \in BOOLEAN, fl \in ZoneFails :
          update_zone_master(<<<<102, 46>>>>, fs, c, fl)
    \/ \E fs \in FwdSettings, f \in {"none", "fwd_add"} :
          update_zone_forward(<<<<102, 46>>>>, fs, f)
    \/ \E g \in DelFails : update_zone_inactive(<<<<102, 46>>>>, g)
    \/ \E dn \in {<<<<102, 46>>>>, <<<<119>>, <<102, 46>>>>},
          g \in DelFails :
          syncrepl_delete(dn, g)
    \/ zone_activate
    \/ zone_sync_prepare
    \/ \E g \in DelFails : zr_destroy(g)

\* the entries of both zones, without failing calls
NextZones ==
    \/ \E dn \in ZoneDns, fs \in FwdSettings, c \in BOOLEAN :
          update_zone_master(dn, fs, c, <<"none", "none">>)
    \/ \E dn \in ZoneDns, fs \in FwdSettings :
          update_zone_forward(dn, fs, "none")
    \/ \E dn \in ZoneDns : update_zone_inactive(dn, "none")
    \/ \E dn \in ZoneDns \cup RecordDns : syncrepl_delete(dn, "none")
    \/ zone_activate
    \/ zone_sync_prepare
    \/ zr_destroy("none")

(***************************************************************************)
(* Reload and restart in update_record                                     *)
(*                                                                         *)
(* The control flow of one update_record call around the update_restart    *)
(* label: the body up to the cleanup label, the test that decides on a     *)
(* dns_zone_load, and the goto that runs the body again.  The results of   *)
(* the calls are inputs.                                                   *)
(***************************************************************************)

\* the counters of loads, restarts and passes stop here
MaxReloads == 3

\* results of the calls of the body, of dns_zone_getserial2 and of
\* dns_zone_load
RecResults == {"ISC_R_SUCCESS", "ISC_R_FAILURE", "ISC_R_NOTFOUND",
               "DNS_R_NOTLOADED", "DNS_R_BADZONE"}
LoadResults == {"ISC_R_SUCCESS", "DNS_R_UPTODATE", "DNS_R_DYNAMIC",
                "DNS_R_CONTINUE", "ISC_R_FAILURE", "DNS_R_BADZONE"}

NoRec == [pc |-> "none", result |-> "ISC_R_SUCCESS", finished |-> FALSE,
          zone_found |-> FALSE, zone_reloaded |-> FALSE,
          loads |-> 0, restarts |-> 0, passes |-> 0, cause |-> "none"]

RelInit == ur = NoRec

RelFrame ==
    UNCHANGED <<poolVars, taskVars, serVars, ptrVars, connVars, syncVars,
                watchVars, diffVars, convVars, zoneVars, zrVars>>

count_up(n) == IF n < MaxReloads THEN n + 1 ELSE n

\* if (result != ISC_R_SUCCESS && zone_found && !zone_reloaded &&
\*     (result == DNS_R_NOTLOADED || result == DNS_R_BADZONE))
reload_wanted_mutant(result, zone_found, zone_reloaded) ==
    /\ result # "ISC_R_SUCCESS"
    /\ zone_found
    /\ result \in {"DNS_R_NOTLOADED", "DNS_R_BADZONE"}
reload_wanted(result, zone_found, zone_reloaded) ==
    /\ result # "ISC_R_SUCCESS"
    /\ zone_found
    /\ ~zone_reloaded
    /\ result \in {"DNS_R_NOTLOADED", "DNS_R_BADZONE"}

\* result == ISC_R_SUCCESS || DNS_R_UPTODATE || DNS_R_DYNAMIC ||
\* DNS_R_CONTINUE after dns_zone_load
load_succeeded(result) ==
    result \in {"ISC_R_SUCCESS", "DNS_R_UPTODATE", "DNS_R_DYNAMIC",
                "DNS_R_CONTINUE"}

\* update_record is called for an event: manager_get_ldap_instance,
\* dn_to_dnsname and zr_get_zone_ptr, with r the first result that is not
\* ISC_R_SUCCESS; finished is the sync state the body will read
update_record_event(finished, r) ==
    /\ ur.pc = "none"
    /\ ur' = [NoRec EXCEPT
                !.pc = IF r = "ISC_R_SUCCESS" THEN "update_restart"
                       ELSE "cleanup",
                !.result = r,
                !.finished = finished,
                !.zone_found = (r = "ISC_R_SUCCESS")]
    /\ RelFrame

\* update_restart to the cleanup label: r is the result the CHECKs of the
\* body leave; when all succeeded and the sync state is finished, the
\* result is that of dns_zone_getserial2 (s)
update_record_body(r, s) ==
    /\ ur.pc = "update_restart"
    /\ ur' = [ur EXCEPT
                !.pc = "cleanup",
                !.passes = count_up(@),
                !.result = IF r = "ISC_R_SUCCESS" /\ ur.finished THEN s
                           ELSE r]
    /\ RelFrame

\* the cleanup label: release, then the test for a reload
update_record_cleanup ==
    /\ ur.pc = "cleanup"
    /\ ur' = IF reload_wanted(ur.result, ur.zone_found, ur.zone_reloaded)
             THEN [ur EXCEPT !.pc = "reload", !.cause = ur.result]
             ELSE [ur EXCEPT !.pc = "signal"]
    /\ RelFrame

\* dns_zone_load (l); when it succeeded zone_reloaded is set and
\* dns_zone_getserial2 (s) decides on goto update_restart
update_record_reload(l, s) ==
    /\ ur.pc = "reload"
    /\ ur' = IF load_succeeded(l)
             THEN [ur EXCEPT
                     !.loads = count_up(@),
                     !.zone_reloaded = TRUE,
                     !.result = s,
                     !.restarts = IF s = "ISC_R_SUCCESS" THEN count_up(@)
                                  ELSE @,
                     !.pc = IF s = "ISC_R_SUCCESS" THEN "update_restart"
                            ELSE "signal"]
             ELSE [ur EXCEPT !.loads = count_up(@), !.result = l,
                             !.pc = "signal"]
    /\ RelFrame

\* sync_concurr_limit_signal and the return of the handler
update_record_return ==
    /\ ur.pc = "signal"
    /\ ur' = [ur EXCEPT !.pc = "none"]
    /\ RelFrame

NextReload ==
    \/ \E f \in BOOLEAN, r \in RecResults : update_record_event(f, r)
    \/ \E r, s \in RecResults : update_record_body(r, s)
    \/ update_record_cleanup
    \/ \E l \in LoadResults, s \in RecResults : update_record_reload(l, s)
    \/ update_record_return

(***************************************************************************)
(* Zone information handed out by the zone register                        *)
(*                                                                         *)
(* zr_get_zone_dn and zr_get_zone_settings return a pointer into the       *)
(* zone_info_t of a zone after they have released the read lock of the     *)
(* register; zr_del_zone removes the node under the write lock and the     *)
(* node deleter delete_zone_info frees the DN and the settings.  Readers   *)
(* are the write-back paths (dnsname_to_dn, modify_ldap_common,            *)
(* ldap_sync_ptr) inside an event of a task; zone deletions are update_zone *)
(* events of the tasks of their zones and call isc_task_beginexclusive in  *)
(* ldap_delete_zone2.  The calls under the lock are atomic steps.           *)
(***************************************************************************)

\* tasks that run a write-back, and the zones of the register
NumReaders == 2
Readers == 1..NumReaders
RegZones == {"a.", "b."}

NoReader == [pc |-> "idle", zone |-> "none", kind |-> "none",
             freed |-> FALSE, used_freed |-> "no"]
NoDeleter == [pc |-> "idle", unlock |-> FALSE]

ZrInit ==
    /\ zinfo = RegZones
    /\ readers = [r \in Readers |-> NoReader]
    /\ deleters = [z \in RegZones |-> NoDeleter]
    /\ excl = FALSE

ZrFrame ==
    UNCHANGED <<poolVars, taskVars, serVars, ptrVars, connVars, syncVars,
                watchVars, diffVars, convVars, zoneVars, reloadVars>>

\* manager->tasks_running: the tasks inside an event
zr_tasks_running ==
    Cardinality({r \in Readers : readers[r].pc # "idle"})
    + Cardinality({z \in RegZones : deleters[z].pc # "idle"})

\* a task starts an event that writes back to the directory for a name of
\* zone z; kind "dn": dnsname_to_dn, kind "settings": the dyn_update test
reader_event(r, z, kind) ==
    /\ readers[r].pc = "idle"
    /\ ~excl
    /\ readers' = [readers EXCEPT ![r] =
                     [NoReader EXCEPT !.pc = "started", !.zone = z,
                                      !.kind = kind]]
    /\ UNCHANGED <<zinfo, deleters, excl>>
    /\ ZrFrame

\* zr_get_zone_dn / zr_get_zone_settings: RWLOCK read, dns_rbt_findname,
\* *dn = zinfo->dn (*set = zinfo->settings), RWUNLOCK; not found: the
\* caller leaves by CHECK
zr_get_zone_info(r) ==
    /\ readers[r].pc = "started"
    /\ readers' = [readers EXCEPT ![r] =
                     IF readers[r].zone \in zinfo
                     THEN [@ EXCEPT !.pc = "holding"]
                     ELSE NoReader]
    /\ UNCHANGED <<zinfo, deleters, excl>>
    /\ ZrFrame

\* the caller reads through the pointer: str_cat_char(target, zone_dn) in
\* dnsname_to_dn, setting_get_bool("dyn_update", zone_settings, ...); when
\* the memory has been freed the read gives the old bytes, other bytes, or
\* ends the process
zr_info_use(r, outcome) ==
    /\ readers[r].pc = "holding"
    /\ readers' = [readers EXCEPT ![r] =
                     [@ EXCEPT !.pc = "idle",
                               !.used_freed = IF readers[r].freed
                                              THEN outcome ELSE "no"]]
    /\ UNCHANGED <<zinfo, deleters, excl>>
    /\ ZrFrame

\* update_zone for a deleted or inactive zone entry starts on the task of
\* its zone
delete_event(z) ==
    /\ deleters[z].pc = "idle"
    /\ z \in zinfo
    /\ ~excl
    /\ deleters' = [deleters EXCEPT ![z] = [pc |-> "begin", unlock |-> FALSE]]
    /\ UNCHANGED <<zinfo, readers, excl>>
    /\ ZrFrame

\* ldap_delete_zone2, lock: isc_task_beginexclusive(inst->task) returns
\* ISC_R_LOCKBUSY at once when exclusive mode is already requested, and
\* the deletion goes on without it
delete_beginexclusive(z) ==
    /\ deleters[z].pc = "begin"
    /\ IF excl
       THEN /\ deleters' = [deleters EXCEPT ![z] =
                              [pc |-> "body", unlock |-> FALSE]]
            /\ UNCHANGED excl
       ELSE /\ deleters' = [deleters EXCEPT ![z] =
                              [pc |-> "wait", unlock |-> FALSE]]
            /\ excl' = TRUE
    /\ UNCHANGED <<zinfo, readers>>
    /\ ZrFrame

\* isc_task_beginexclusive returns ISC_R_SUCCESS once this task is the
\* only one running
delete_exclusive(z) ==
    /\ deleters[z].pc = "wait"
    /\ zr_tasks_running = 1
    /\ deleters' = [deleters EXCEPT ![z] = [pc |-> "body", unlock |-> TRUE]]
    /\ UNCHANGED <<zinfo, readers, excl>>
    /\ ZrFrame

\* delete_bind_zone, zr_del_zone (RWLOCK write, dns_rbt_deletename with the
\* deleter delete_zone_info, RWUNLOCK) and the cleanup label:
\* isc_task_endexclusive if unlock
zr_del_zone(z) ==
    /\ deleters[z].pc = "body"
    /\ zinfo' = zinfo \ {z}
    /\ readers' = [r \in Readers |->
                     IF readers[r].pc = "holding" /\ readers[r].zone = z
                     THEN [readers[r] EXCEPT !.freed = TRUE]
                     ELSE readers[r]]
    /\ excl' = IF deleters[z].unlock THEN FALSE ELSE excl
    /\ deleters' = [deleters EXCEPT ![z] = NoDeleter]
    /\ ZrFrame

\* zr_add_zone: the zone entry comes back and update_zone registers a new
\* zone_info_t for it
zr_add_zone(z) ==
    /\ z \notin zinfo
    /\ deleters[z].pc = "idle"
    /\ ~excl
    /\ zinfo' = zinfo \cup {z}
    /\ UNCHANGED <<readers, deleters, excl>>
    /\ ZrFrame

NextZr ==
    \/ \E r \in Readers, z \in RegZones, k \in {"dn", "settings"} :
          reader_event(r, z, k)
    \/ \E r \in Readers : zr_get_zone_info(r)
    \/ \E r \in Readers, o \in {"stale", "wild", "SIGSEGV"} :
          zr_info_use(r, o)
    \/ \E z \in RegZones : delete_event(z)
    \/ \E z \in RegZones : delete_beginexclusive(z)
    \/ \E z \in RegZones : delete_exclusive(z)
    \/ \E z \in RegZones : zr_del_zone(z)
    \/ \E z \in RegZones : zr_add_zone(z)

(***************************************************************************)
(* Specifications                                                          *)
(***************************************************************************)

Init ==
    /\ PoolInit
    /\ TaskInit
    /\ SerInit
    /\ PtrInit
    /\ ConnInit
    /\ SyncInit
    /\ WatchInit
    /\ DiffInit
    /\ ConvInit
    /\ ZoneInit
    /\ RelInit
    /\ ZrInit

\* the parts of the state a specification does not exercise start from
\* one value: the clock at 0; an empty directory with PTR synchronization
\* switched on
SerQuiet == now = 0
PtrQuiet ==
    /\ zone_sync_ptr /\ rev_zone /\ zone_dyn_update
    /\ rev = NoEntry
    /\ fwd = [o \in Owners |-> NoEntry]

ConnQuiet ==
    /\ conn.handle = "bound"
    /\ reconnect_interval = 6
    /\ ~reserved
    /\ cent = AbsentEntry

SyncQuiet == sdir = {"config"}
DiffQuiet ==
    /\ rbt_rds = [i \in DOMAIN RdTypes |-> [ttl |-> 0, vals |-> {}]]
    /\ ldap_rdatalist = [i \in DOMAIN RdTypes |-> [ttl |-> 0, vals |-> << >>]]

\* no conversion pending: the empty string, not yet converted
ConvQuiet ==
    /\ cin = [kind |-> "str", str |-> << >>, char_signed |-> FALSE]
    /\ cres = [done |-> FALSE]
\* each conjunct that pins a part stands next to the conjunct that draws it
InitQuiet ==
    /\ PoolInit
    /\ TaskInit
    /\ SerInit
    /\ SerQuiet
    /\ PtrInit
    /\ PtrQuiet
    /\ ConnInit
    /\ ConnQuiet
    /\ SyncQuiet
    /\ SyncInit
    /\ WatchInit
    /\ DiffQuiet
    /\ DiffInit
    /\ ConvQuiet
    /\ ZoneInit
    /\ RelInit
    /\ ZrInit
InitSerial ==
    /\ PoolInit
    /\ TaskInit
    /\ SerInit
    /\ PtrInit
    /\ PtrQuiet
    /\ ConnInit
    /\ ConnQuiet
    /\ SyncQuiet
    /\ SyncInit
    /\ WatchInit
    /\ DiffQuiet
    /\ DiffInit
    /\ ConvQuiet
    /\ ZoneInit
    /\ RelInit
    /\ ZrInit
InitPtr ==
    /\ PoolInit
    /\ TaskInit
    /\ SerInit
    /\ SerQuiet
    /\ PtrInit
    /\ ConnInit
    /\ ConnQuiet
    /\ SyncQuiet
    /\ SyncInit
    /\ WatchInit
    /\ DiffQuiet
    /\ DiffInit
    /\ ConvQuiet
    /\ ZoneInit
    /\ RelInit
    /\ ZrInit
InitConn ==
    /\ PoolInit
    /\ TaskInit
    /\ SerInit
    /\ SerQuiet
    /\ PtrInit
    /\ PtrQuiet
    /\ ConnInit
    /\ SyncQuiet
    /\ SyncInit
    /\ WatchInit
    /\ DiffQuiet
    /\ DiffInit
    /\ ConvQuiet
    /\ ZoneInit
    /\ RelInit
    /\ ZrInit
InitSync ==
    /\ PoolInit
    /\ TaskInit
    /\ SerInit
    /\ SerQuiet
    /\ PtrInit
    /\ PtrQuiet
    /\ ConnInit
    /\ ConnQuiet
    /\ SyncInit
    /\ WatchInit
    /\ DiffQuiet
    /\ DiffInit
    /\ ConvQuiet
    /\ ZoneInit
    /\ RelInit
    /\ ZrInit

SpecPool == InitQuiet /\ [][NextPool]_vars
SpecTask == InitQuiet /\ [][NextTask]_vars
SpecCap == InitQuiet /\ [][NextCap]_vars
SpecZr == InitQuiet /\ [][NextZr]_vars
SpecSerial == InitSerial /\ [][NextSerial]_vars
SpecJournal == InitSerial /\ [][NextJournal]_vars
SpecPtr == InitPtr /\ [][NextPtr]_vars
SpecConn == InitConn /\ [][NextConn]_vars
SpecSync == InitSync /\ [][NextSync]_vars
InitDiff ==
    /\ PoolInit
    /\ TaskInit
    /\ SerInit
    /\ SerQuiet
    /\ PtrInit
    /\ PtrQuiet
    /\ ConnInit
    /\ ConnQuiet
    /\ SyncQuiet
    /\ SyncInit
    /\ WatchInit
    /\ DiffInit
    /\ ConvQuiet
    /\ ZoneInit
    /\ RelInit
    /\ ZrInit
SpecDiff == InitDiff /\ [][NextDiff]_vars
InitConv ==
    /\ PoolInit
    /\ TaskInit
    /\ SerInit
    /\ SerQuiet
    /\ PtrInit
    /\ PtrQuiet
    /\ ConnInit
    /\ ConnQuiet
    /\ SyncQuiet
    /\ SyncInit
    /\ WatchInit
    /\ DiffQuiet
    /\ DiffInit
    /\ ConvInit
    /\ ZoneInit
    /\ RelInit
    /\ ZrInit
SpecConv == InitConv /\ [][NextConv]_vars
InitZone ==
    /\ PoolInit
    /\ TaskInit
    /\ SerInit
    /\ SerQuiet
    /\ PtrInit
    /\ PtrQuiet
    /\ ConnInit
    /\ ConnQuiet
    /\ SyncQuiet
    /\ SyncInit
    /\ WatchInit
    /\ DiffQuiet
    /\ DiffInit
    /\ ConvQuiet
    /\ ZoneInit
    /\ RelInit
    /\ ZrInit
SpecZone == InitZone /\ [][NextZone]_vars
SpecZones == InitZone /\ [][NextZones]_vars
\* the watcher thread and the thread in destroy_ldap_instance are
\* scheduled, a sleep() ends when its time has passed and the tasks run
\* their handlers; the directory server is free to stay silent
SpecWatch ==
    /\ InitQuiet
    /\ [][NextWatch]_vars
    /\ WF_vars(watcher_loop)
    /\ WF_vars(\E i \in BOOLEAN : watcher_sync_prepare(i))
    /\ WF_vars(sane_sleep_test)
    /\ WF_vars(sane_sleep_expired)
    /\ WF_vars(\E b \in BOOLEAN : watcher_reconnect(b))
    /\ WF_vars(watcher_poll_test)
    /\ WF_vars(watcher_block)
    /\ WF_vars(watcher_concurr_wait)
    /\ WF_vars(watcher_barrier_wait)
    /\ WF_vars(handler_returns)
    /\ WF_vars(watcher_cleanup)
    /\ WF_vars(destroy_set_exiting)
    /\ WF_vars(destroy_pthread_kill)
    /\ WF_vars(destroy_thread_join)
\* every step of a call is a blocking library call that ends by the LDAP
\* "timeout" setting at the latest, so a call in progress takes its steps
SpecConnLive ==
    /\ InitConn
    /\ [][NextConn]_vars
    /\ WF_vars(\E o, i \in BOOLEAN, b \in BindRets : connection_error(o, i, b))
    /\ WF_vars(\E l, l2 \in Links, o \in BOOLEAN : ldap_modify_do_op(l, l2, o))
    /\ WF_vars(\E l \in Links : ldap_query_op(l))
    /\ WF_vars(\E l \in Links : remove_entry_from_ldap(l))

\* the steps of a started update_record call are taken; events may stop
\* coming
SpecReload ==
    /\ InitQuiet
    /\ [][NextReload]_vars
    /\ WF_vars(\E r, s \in RecResults : update_record_body(r, s))
    /\ WF_vars(update_record_cleanup)
    /\ WF_vars(\E l \in LoadResults, s \in RecResults :
                  update_record_reload(l, s))
    /\ WF_vars(update_record_return)

(***************************************************************************)
(* Claims                                                                  *)
(***************************************************************************)

\* C1: every connection returned by a successful ldap_pool_getconnection
\* is locked by the caller, and no two threads hold the same connection
\* at the same time (watcher thread included).
C1_ConnectionExclusive ==
    /\ \A t \in PoolThreads :
          pcPool[t] = "hold" => /\ ldap_conn[t] \in Conns
                                /\ lock[ldap_conn[t]] = t
    /\ \A t1, t2 \in PoolThreads :
          (t1 # t2 /\ pcPool[t1] = "hold" /\ pcPool[t2] = "hold")
              => ldap_conn[t1] # ldap_conn[t2]

\* The watcher keeps its reserved connection while a worker holds another
\* one that it found after skipping a locked connection, and a third
\* thread is waiting for a permit.
C1_Witness ==
    /\ pcPool[Watcher] = "hold"
    /\ \E t \in Workers : pcPool[t] = "hold" /\ scan_i[t] > 1
    /\ \E t \in Workers : pcPool[t] = "sem_wait"

\* C2: handlers that mutate the database of one zone are serialized: for
\* every origin, no two update_zone / update_record invocations are inside
\* the zone's database transaction at the same time, whichever task
\* syncrepl_update posted them to.
C2_ZoneSerialized ==
    \A o \in Origins : \A t1, t2 \in TaskIds :
        (InZoneDb(t1, o) /\ InZoneDb(t2, o)) => t1 = t2

\* C3: after a successful projection or record update on an existing zone
\* the SOA serial of the database has not decreased (serial arithmetic), and
\* it has strictly increased when the applied diff held a non-SOA tuple or
\* a synthesized SOA pair, in either sync state and for every entry serial.
C3_SerialMonotonic ==
    (lastOp.ok /\ ~lastOp.new_zone) =>
        /\ ~lastOp.serial_lt
        /\ (lastOp.nonsoa \/ lastOp.synth) => lastOp.serial_gt

\* C4 (as stated): the zone event that echoes a serial write-back and
\* carries the zone data the database holds changes nothing, whenever it is
\* handled: no database change, no journal transaction, no serial bump and
\* no directory write.
C4_EchoAbsorbedAlways ==
    (lastOp.op = "zone" /\ lastOp.echo /\ lastOp.same_data) =>
        /\ ~lastOp.applied
        /\ ~lastOp.journal
        /\ ~lastOp.ldap_writeback

\* C4 (amended): handled in sync state Finished, an echo that carries the
\* zone data the database holds is never bumped and never written back; the
\* diff is empty when the echoed serial is equal to or behind the database
\* serial; otherwise (ahead, or half the serial space away) only the SOA
\* serial moves, to the echoed value.  Handled in sync state Init,
\* the zone event is always bumped and written back again.
C4_EchoAbsorbedFinished ==
    /\ (lastOp.op = "zone" /\ lastOp.echo /\ lastOp.same_data
            /\ lastOp.state = "finished") =>
          /\ ~lastOp.ldap_writeback
          /\ lastOp.serial_le => (~lastOp.applied /\ ~lastOp.journal)
          /\ lastOp.applied =>
                (~lastOp.nonsoa /\ ~lastOp.synth /\ ~lastOp.serial_lt
                 /\ lastOp.branch = "keep")
    /\ (lastOp.op = "zone" /\ lastOp.state = "init") => lastOp.ldap_writeback
C4_Witness ==
    /\ lastOp.op = "zone" /\ lastOp.echo /\ lastOp.same_data
    /\ lastOp.state = "finished"
    /\ ~lastOp.ahead /\ ~lastOp.applied /\ ~lastOp.ldap_writeback
    /\ zone_exists

\* C5: when an A/AAAA add with sync_ptr enabled returns success, the
\* reverse entry holds exactly one PTR value, the owner of the A/AAAA
\* record, also when updates for the same address run concurrently.
C5_ExactlyOnePtr ==
    (lastUpd.done /\ zone_sync_ptr /\ lastUpd.mod_op = "LDAP_MOD_ADD"
        /\ lastUpd.result = "ISC_R_SUCCESS") => lastUpd.ptr_exact

\* C6: when validation of an A/AAAA add finds a PTR with a different
\* target, nothing has been modified in the directory: the A/AAAA value was
\* not written to the owner entry and the PTR entry is unchanged.
C6_ConflictNoMutation ==
    (lastUpd.done /\ lastUpd.mod_op = "LDAP_MOD_ADD"
        /\ lastUpd.saw = "different") =>
        /\ ~lastUpd.a_ok
        /\ ~lastUpd.sent
        /\ lastUpd.ptr_kept

C10_PtrFailureOnlyLogged ==
    (lastUpd.done /\ lastUpd.a_ok /\ lastUpd.valid = "ISC_R_SUCCESS") =>
        lastUpd.result = "ISC_R_SUCCESS"

\* C11: ldap_modify_do returns success, without a retry, when a DELETE
\* modification fails only because the attribute value to delete is not in
\* the entry (LDAP noSuchAttribute).
C11_DeleteMissingSucceeds ==
    (/\ lastCall.done /\ lastCall.call.kind = "modify"
     /\ lastCall.call.mod_op = "LDAP_MOD_DELETE"
     /\ lastCall.call.opt_ok
     /\ lastCall.call.err_code = "LDAP_NO_SUCH_ATTRIBUTE") =>
        lastCall.result = "ISC_R_SUCCESS"

C13_RetryOnlyAfterReconnect ==
    (lastCall.done /\ lastCall.call.kind = "modify") =>
        /\ lastCall.call.nattempt <= 2
        /\ lastCall.call.nattempt = 2 =>
             /\ lastCall.call.err1 \in {"LDAP_SERVER_DOWN", "LDAP_TIMEOUT"}
             /\ lastCall.call.reconn

\* C13 (amended): the modify or delete operation of one ldap_modify_do call
\* is attempted at most twice; a second attempt is made only when the
\* handle was not NULL at the start, the first attempt failed with an error
\* other than noSuchAttribute on a DELETE, and handle_connection_error
\* returned success (a reconnect, or nothing at all for noSuchObject);
\* every call returns.
C13_RetryBounded ==
    /\ [](call.kind = "modify" =>
            /\ call.nattempt <= 2
            /\ (call.nattempt = 2 \/ (call.nattempt = 1 /\ call.pc = "op")) =>
                 /\ ~call.was_null
                 /\ call.err1 # "LDAP_SUCCESS"
                 /\ ~(/\ call.mod_op = "LDAP_MOD_DELETE"
                      /\ call.err1 = "LDAP_NO_SUCH_ATTRIBUTE")
                 /\ call.hce = "ISC_R_SUCCESS"
                 /\ call.reconn \/ call.err1 = "LDAP_NO_SUCH_OBJECT")
    /\ (call.pc \in {"hce", "op"}) ~> (call.pc = "idle")
C13_Witness ==
    /\ lastCall.done /\ lastCall.call.kind = "modify"
    /\ lastCall.call.nattempt = 2
    /\ lastCall.call.err1 = "LDAP_TYPE_OR_VALUE_EXISTS"

\* C14: ldap_reconnect called with force = false on a connection with
\* tries > 0 before next_reconnect makes no bind attempt, leaves tries and
\* next_reconnect as they are and returns SoftQuota; a connection with
\* tries > 0 is bound again only at or after next_reconnect or with force.
C14_ReconnectGate ==
    lastBind.called =>
        /\ (/\ ~lastBind.force /\ lastBind.tries_before > 0
            /\ lastBind.next_before > 0) =>
              /\ ~lastBind.attempted
              /\ lastBind.tries_after = lastBind.tries_before
              /\ lastBind.next_after = lastBind.next_before
              /\ lastBind.result = "ISC_R_SOFTQUOTA"
        /\ (lastBind.attempted /\ lastBind.tries_before > 0) =>
              lastBind.force \/ lastBind.next_before = 0
C14_Witness ==
    /\ lastBind.called /\ ~lastBind.force
    /\ lastBind.tries_before > 0 /\ lastBind.next_before > 0
    /\ lastBind.result = "ISC_R_SOFTQUOTA"
    /\ lastCall.done /\ lastCall.result = "ISC_R_SOFTQUOTA"

\* C15 (as stated): after k consecutive failed bind attempts the next
\* attempt comes at least min(table[min(k, 3)], reconnect_interval) seconds
\* after the last one.
C15_BackoffByFailures ==
    lastBind.gap_valid =>
        lastBind.gap >= seconds(ISC_MIN(lastBind.gap_k, ntimes - 1))

\* C15 (amended): after k >= 1 consecutive failed attempts the next attempt
\* comes at least min(table[min(k - 1, 3)], reconnect_interval) seconds
\* after the last one.
C15_Backoff ==
    lastBind.gap_valid =>
        /\ lastBind.gap_k >= 1
        /\ lastBind.gap >= seconds(ISC_MIN(lastBind.gap_k - 1, ntimes - 1))
C15_Witness ==
    /\ lastBind.gap_valid /\ ~lastBind.force
    /\ lastBind.gap_k = 3
    /\ lastBind.gap = intervals[3]
    /\ reconnect_interval > intervals[3]

\* C16: no search, modify, add or delete is issued on a connection whose
\* handle is NULL or unbound: a caller that finds the handle NULL reconnects
\* first and issues the operation only if the reconnect succeeded, and a
\* failed connect or bind leaves the handle NULL.
C16_NoOpOnUnboundHandle ==
    /\ conn.handle \in {"null", "bound"}
    /\ call.pc = "op" => conn.handle = "bound"
    /\ ~call.bad /\ ~lastCall.call.bad
    /\ (call.was_null /\ call.pc = "op" /\ call.nattempt = 0) => call.reconn
    /\ (lastCall.done /\ lastCall.call.was_null) =>
          \/ lastCall.call.nattempt >= 1
          \/ lastCall.result # "ISC_R_SUCCESS" /\ conn.handle = "null"
C16_Witness ==
    /\ lastCall.done /\ lastCall.call.was_null
    /\ lastCall.call.nattempt >= 1
    /\ lastCall.result = "ISC_R_SUCCESS"

\* C17: the sync state is Finished only when every event (config, zone or
\* record) that was dispatched while the state was Init has run to
\* completion: none of them is still queued on a task or being handled.
C17_InitEventsDrained ==
    sctx.state = "finished" =>
        \A t \in SyncTasks :
            /\ ~srun[t].init
            /\ \A i \in 1..Len(squeue[t]) : ~squeue[t][i].init

\* C18 (as stated): a zone created while the state is Init is never put
\* into the view by the zone handler but by activate_zones, and a zone
\* created while the state is Finished is published by its handler.
C18_PublishedByCreationState ==
    /\ szone.created = "init" => szone.published_by # "handler"
    /\ szone.created = "init" /\ szone.in_view =>
           szone.published_by = "activate_zones"
    /\ szone.created = "finished" /\ szone.done =>
           szone.published_by = "handler"

\* C18 (amended): the handler of a new zone publishes it exactly when the
\* state it reads after creating the zone is Finished; a zone created
\* while Init is never published by the handler but by activate_zones, and
\* so is a zone created while Finished whose handler reads Init because
\* the watcher has started a new refresh in between; once the state is
\* Finished every zone whose handler has returned is in the view.
C18_PublishedByStateRead ==
    /\ szone.created = "init" => szone.published_by # "handler"
    /\ szone.created = "init" /\ szone.in_view =>
           szone.published_by = "activate_zones"
    /\ szone.done =>
           (szone.published_by = "handler" <=> szone.saw = "finished")
    /\ szone.done /\ sctx.state = "finished" => szone.in_view

\* a zone created while Finished, whose handler read Init after a reset,
\* has been published by activate_zones at the end of the next refresh
C18_Witness ==
    /\ szone.done
    /\ szone.created = "finished"
    /\ szone.saw = "init"
    /\ szone.published_by = "activate_zones"

\* C19: once destroy_ldap_instance has set exiting and sent the wake
\* signal, the watcher thread eventually ends and has released its
\* connection, whatever it was doing, so that the join returns.
C19_WatcherTerminates ==
    (destroy.pc = "join") ~> (wthread.pc = "done" /\ destroy.pc = "joined")

\* C20: for any rdatasets of the node and rdatalists of the entry the diff
\* of diff_ldap_rbtdb, applied to the node, leaves exactly the records of
\* the entry, and the diff never holds a DEL and an ADD tuple of the same
\* type, TTL and rdata (the name is the same for all tuples).
C20_DiffYieldsEntry ==
    /\ dpc = "applied" => rbt_after = ldap_records(ldap_rdatalist)
    /\ \A i, j \in DOMAIN diff :
           /\ diff[i].type = diff[j].type
           /\ diff[i].ttl = diff[j].ttl
           /\ diff[i].rdata = diff[j].rdata
           => diff[i].op = diff[j].op

\* a diff was applied for a node and an entry that share a record, with a
\* record to delete, a record to add and a value the entry gives twice
C20_Witness ==
    /\ dpc = "applied"
    /\ rbt_records(rbt_rds) \cap ldap_records(ldap_rdatalist) # {}
    /\ \E i, j \in DOMAIN diff :
           diff[i].op = "DNS_DIFFOP_DEL" /\ diff[j].op = "DNS_DIFFOP_ADD"
    /\ \E i \in DOMAIN RdTypes :
           /\ Len(ldap_rdatalist[i].vals) = 2
           /\ ldap_rdatalist[i].vals[1] = ldap_rdatalist[i].vals[2]

\* what a string denotes as master-file text: its bytes, each marked as
\* written with an escape or not; not ok for a trailing backslash, a \DDD
\* cut short, a \DDD with a character that is no digit, a \DDD above 255
conv_denoted(s) ==
    LET len == Len(s)
        RECURSIVE scan(_, _)
        scan(i, bytes) ==
            IF i > len THEN [ok |-> TRUE, bytes |-> bytes]
            ELSE IF s[i] # 92
            THEN scan(i + 1, Append(bytes, [b |-> s[i], esc |-> FALSE]))
            ELSE IF i + 1 > len THEN [ok |-> FALSE, bytes |-> << >>]
            ELSE IF s[i + 1] \notin 48..57
            THEN scan(i + 2, Append(bytes, [b |-> s[i + 1], esc |-> TRUE]))
            ELSE IF \/ i + 3 > len
                    \/ s[i + 2] \notin 48..57
                    \/ s[i + 3] \notin 48..57
                    \/ 100 * (s[i + 1] - 48) + 10 * (s[i + 2] - 48)
                         + (s[i + 3] - 48) > 255
            THEN [ok |-> FALSE, bytes |-> << >>]
            ELSE scan(i + 4,
                      Append(bytes,
                             [b |-> 100 * (s[i + 1] - 48)
                                      + 10 * (s[i + 2] - 48)
                                      + (s[i + 3] - 48),
                              esc |-> TRUE]))
    IN  scan(1, << >>)

\* a string of bytes in [A-Za-z0-9._-] and groups \HH
conv_safe_output(o) ==
    LET hex(c) == c \in 48..57 \/ c \in 97..102 \/ c \in 65..70
        safe(c) == \/ c \in 48..57 \/ c \in 65..90 \/ c \in 97..122
                   \/ c \in {46, 45, 95}
        RECURSIVE ok(_)
        ok(i) == IF i > Len(o) THEN TRUE
                 ELSE IF o[i] = 92
                 THEN i + 2 <= Len(o) /\ hex(o[i + 1]) /\ hex(o[i + 2])
                      /\ ok(i + 3)
                 ELSE safe(o[i]) /\ ok(i + 1)
    IN  ok(1)

\* the denoted bytes written out: a safe byte without escape as it is,
\* every other byte as \HH
conv_expected(bytes) ==
    LET safe(c) == \/ c \in 48..57 \/ c \in 65..90 \/ c \in 97..122
                   \/ c \in {46, 45, 95}
        RECURSIVE out(_)
        out(bs) == IF bs = << >> THEN << >>
                   ELSE (IF ~Head(bs).esc /\ safe(Head(bs).b)
                         THEN <<Head(bs).b>>
                         ELSE <<92>> \o Hex2(Head(bs).b)) \o out(Tail(bs))
    IN  out(bytes)

conv_escaped == cres.done /\ cin.kind = "str"
conv_accepted == conv_escaped /\ cres.result = "ISC_R_SUCCESS"
conv_roundtrip == cres.done /\ cin.kind = "name"

\* C21: for every absolute name and every register that holds a zone at or
\* above it, dn_to_dnsname(dnsname_to_dn(n)) succeeds and returns n,
\* ignoring case
C21_NameRoundTrip ==
    (/\ conv_roundtrip
     /\ \E o \in cin.zr : name_issubdomain(cin.rel \o cin.zone, o))
    => /\ cres.result = "ISC_R_SUCCESS"
       /\ cres.back = "ISC_R_SUCCESS"
       /\ name_fold(cres.target) = name_fold(cin.rel \o cin.zone)

C23_MalformedRejected ==
    (conv_escaped /\ ~conv_denoted(cin.str).ok)
    => cres.result # "ISC_R_SUCCESS" /\ cres.ldap_name = "NULL"

\* the plugin's zones that exist in the name server: a zone lives while
\* the register or the zone table of the view holds it
plugin_zones == zr \cup zview

C25_MasterToForward ==
    (/\ lastZ.op = "master"
     /\ lastZ.was_master
     /\ lastZ.policy \in {"first", "only"}
     /\ lastZ.fwds = "valid")
    => /\ lastZ.name \notin zr
       /\ lastZ.name \notin zfiles
       /\ fwdtable[lastZ.name] = "fwd"
       /\ lastZ.flushed

\* C26: when the handler created a zone and a later step failed, the
\* origin is afterwards neither in the register nor in the view
C26_CreatedZoneRolledBack ==
    (lastZ.op = "master" /\ lastZ.created /\ lastZ.step # "none")
    => lastZ.name \notin zr /\ lastZ.name \notin zview

\* C27: a deleted entry is Forward if its name is in the forward register,
\* else Master if its name is the origin of a registered zone, else Record;
\* the deletion of a record entry goes to the record handler and deletes
\* no zone
C27_DeleteClass ==
    lastZ.op = "delete"
    => /\ lastZ.class = IF lastZ.was_forward THEN "forward"
                        ELSE IF lastZ.was_zone THEN "master"
                        ELSE "rr"
       /\ lastZ.dn \in RecordDns => lastZ.class = "rr" /\ zr = lastZ.zr_before

\* C28: with policy none, or with another policy and no valid forwarder,
\* the handler removes the forward-table entry of the zone and goes on
\* with the master zone
C28_NoForwardersContinues ==
    (/\ lastZ.op = "master"
     /\ \/ lastZ.policy = "none"
        \/ lastZ.policy \in {"first", "only"}
           /\ lastZ.fwds \in {"absent", "invalid"})
    => fwdtable[lastZ.name] = "absent" /\ ~lastZ.early

\* C29 (as stated): the zone projector calls ldap_replace_serial exactly
\* when it synthesized a SOA pair or rewrote the serial of the entry's SOA
\* tuple; there is no write-back when the serial of the entry is ahead of
\* the database serial, nor for an empty or discarded diff.
C29_WritebackIffBumped ==
    lastOp.op = "zone" =>
        /\ lastOp.ldap_writeback <=> lastOp.branch \in {"synth", "rewrite"}
        /\ lastOp.ahead => ~lastOp.ldap_writeback
        /\ lastOp.branch \in {"empty", "clear"} => ~lastOp.ldap_writeback

\* C29 (amended): the write-back is issued exactly for a synthesized pair
\* or a rewritten serial; an empty or discarded diff is never written
\* back; an entry serial ahead of the database serial is applied without
\* write-back in sync state Finished, and is rewritten and written back,
\* like every zone event, in sync state Init.
C29_WritebackIffBumpedFinished ==
    lastOp.op = "zone" =>
        /\ lastOp.ldap_writeback <=> lastOp.branch \in {"synth", "rewrite"}
        /\ (lastOp.ahead /\ lastOp.state = "finished")
              => (~lastOp.ldap_writeback /\ lastOp.branch = "keep")
        /\ (lastOp.state = "init" \/ lastOp.new_zone) => lastOp.ldap_writeback
        /\ lastOp.branch \in {"empty", "clear"} => ~lastOp.ldap_writeback
\* an entry whose serial is ahead, applied as it is in sync state Finished
C29_Witness ==
    /\ lastOp.op = "zone"
    /\ lastOp.state = "finished"
    /\ lastOp.ahead
    /\ lastOp.branch = "keep"
    /\ lastOp.applied
    /\ ~lastOp.ldap_writeback

\* the database of the zone and the directory writes still to be echoed
zone_contents == <<zone_exists, dbSerial, dbSoa, dbData, dbRec>>
directory_untouched ==
    echoq' = echoq \/ (echoq # << >> /\ echoq' = Tail(echoq))

\* C30 (as stated): in sync state Finished, for an existing zone, a diff
\* that holds only a SOA pair differing in the serial, with the new serial
\* not ahead of the database serial, is discarded: the handler leaves the
\* database contents and serial, the journal and the directory untouched.
C30_SerialOnlyNotAheadDiscarded ==
    [][(/\ lastOp'.op = "zone"
        /\ lastOp'.state = "finished"
        /\ lastOp'.serial_only
        /\ ~lastOp'.ahead)
       => /\ UNCHANGED zone_contents
          /\ ~lastOp'.applied
          /\ ~lastOp'.journal
          /\ ~lastOp'.ldap_writeback
          /\ directory_untouched]_vars

\* C30 (amended): the same for a new serial that is behind the database
\* serial in serial arithmetic; a serial exactly half the serial space
\* away is neither ahead nor behind and is applied.
C30_SerialOnlyBehindDiscarded ==
    [][(/\ lastOp'.op = "zone"
        /\ lastOp'.state = "finished"
        /\ lastOp'.serial_only)
       => /\ lastOp'.serial_le
             => /\ UNCHANGED zone_contents
                /\ lastOp'.branch = "clear"
                /\ ~lastOp'.applied
                /\ ~lastOp'.journal
                /\ ~lastOp'.ldap_writeback
                /\ directory_untouched
          /\ (~lastOp'.serial_le /\ lastOp'.ok)
             => (lastOp'.applied /\ lastOp'.branch = "keep")]_vars
\* a serial-only diff that moves the serial back was discarded
C30_Witness ==
    /\ lastOp.op = "zone"
    /\ lastOp.state = "finished"
    /\ lastOp.serial_only
    /\ lastOp.serial_le
    /\ lastOp.branch = "clear"
    /\ ~lastOp.applied
    /\ zone_exists

\* C31: a zone event writes a journal transaction only for a non-empty
\* final diff in sync state Finished on a zone this invocation did not
\* create, and every successful handler run with such a diff writes one; a
\* diff applied in state Init or for a new zone leaves no journal entry.
C31_ZoneJournalIff ==
    lastOp.op = "zone" =>
        /\ lastOp.journal =>
              /\ lastOp.branch \notin {"empty", "clear"}
              /\ lastOp.state = "finished"
              /\ ~lastOp.new_zone
        /\ (/\ lastOp.ok
            /\ lastOp.branch \notin {"empty", "clear"}
            /\ lastOp.state = "finished"
            /\ ~lastOp.new_zone) => (lastOp.journal /\ lastOp.applied)
        /\ (lastOp.applied /\ (lastOp.state = "init" \/ lastOp.new_zone))
              => ~lastOp.journal
\* a zone created in sync state Finished: applied, nothing journalled
C31_Witness ==
    /\ lastOp.op = "zone"
    /\ lastOp.state = "finished"
    /\ lastOp.new_zone
    /\ lastOp.applied
    /\ ~lastOp.journal

\* C32: update_record bumps the SOA serial, writes the serial back and
\* writes a journal transaction only in sync state Finished with a
\* non-empty record diff, and a successful run in that case does all three;
\* an empty diff changes nothing; a non-empty diff in state Init is applied
\* with no serial change, no write-back and no journal entry.
C32_RecordBumpIff ==
    [][lastOp'.op = "rr" =>
         /\ (lastOp'.synth \/ lastOp'.ldap_writeback \/ lastOp'.journal)
               => (lastOp'.state = "finished" /\ lastOp'.branch = "synth")
         /\ (lastOp'.ok /\ lastOp'.branch = "synth")
               => /\ lastOp'.synth
                  /\ lastOp'.ldap_writeback
                  /\ lastOp'.journal
         /\ lastOp'.branch = "empty"
               => /\ UNCHANGED <<zone_exists, dbSerial, dbSoa, dbData, dbRec>>
                  /\ echoq' = echoq
                  /\ ~lastOp'.applied
         /\ lastOp'.branch = "plain"
               => /\ lastOp'.state = "init"
                  /\ dbSerial' = dbSerial
                  /\ echoq' = echoq
                  /\ lastOp'.ok => lastOp'.applied]_vars
\* a record change applied in sync state Init without a serial bump
C32_Witness ==
    /\ lastOp.op = "rr"
    /\ lastOp.state = "init"
    /\ lastOp.branch = "plain"
    /\ lastOp.applied
    /\ ~lastOp.ldap_writeback
    /\ ~lastOp.journal
    /\ dbRec = "a1"

\* C39: every journal transaction written by a handler belongs to a diff
\* the same handler committed to the zone database, also when the journal
\* write or dns_diff_apply fails, and every diff committed in sync state
\* Finished on an existing zone has its journal transaction.
C39_JournalMatchesCommits ==
    lastOp.op \in {"zone", "rr"} =>
        /\ lastOp.journal => lastOp.applied
        /\ (lastOp.applied /\ lastOp.state = "finished" /\ ~lastOp.new_zone)
              => lastOp.journal

\* C35: dn_to_dnsname returns NotImplemented for every DN that begins with
\* more than two idnsName components; it never takes the first two as
\* owner and zone.
C35_ThreeNamesRejected ==
    (cin.kind = "dn" /\ cres.done /\ Len(cin.dn) > 2)
    => cres.result = "ISC_R_NOTIMPLEMENTED"

\* the deepest zone of the register at or above the name of the input
split_enclosing ==
    {o \in cin.zr : name_issubdomain(cin.rel \o cin.zone, o)}
split_deepest ==
    CHOOSE o \in split_enclosing : \A q \in split_enclosing : Len(q) <= Len(o)

\* C40: for every name inside a registered zone, the owner equal to the
\* origin included, and for zone DNs with and without ", ", the split of
\* the DN at its first ", " gives modify_ldap_common and ldap_find_ptr the
\* origin of the deepest enclosing zone of the register, and no separator
\* position that strstr did not find is used.
C40_SplitGivesDeepestZone ==
    (cin.kind = "split" /\ cres.done /\ split_enclosing # {})
    => /\ ~cres.null_used
       /\ cres.result = "ISC_R_SUCCESS"
       /\ name_fold(cres.zone_name) = name_fold(split_deepest)

\* C36: every successful ldap_pool_getconnection is matched by exactly one
\* ldap_pool_putconnection on every exit path of ldap_query, ldap_modify_do
\* and remove_entry_from_ldap: the permits of the semaphore plus the
\* threads between a granted wait and their signal make the pool size, a
\* locked connection belongs to a thread that still holds it, and with
\* every worker idle the count plus the watcher's reserved connection is
\* the pool size and no connection is locked by a worker.
C36_GetPutBalanced ==
    /\ conn_semaphore
         + Cardinality({t \in PoolThreads :
               pcPool[t] \in {"scan", "hold", "cleanup", "sem_signal"}})
         = PoolSize
    /\ \A c \in Conns : lock[c] # NoThread =>
           /\ pcPool[lock[c]] \in {"scan", "hold", "cleanup"}
           /\ pcPool[lock[c]] # "scan" => ldap_conn[lock[c]] = c
    /\ (\A t \in Workers : pcPool[t] = "idle") =>
           /\ conn_semaphore
                + (IF pcPool[Watcher] \in {"scan", "hold", "sem_signal"}
                   THEN 1 ELSE 0) = PoolSize
           /\ \A c \in Conns : lock[c] \in {NoThread, Watcher}

\* Every worker is idle again after one of them left its function by the
\* cleanup label and returned its connection, while the watcher keeps its
\* reserved connection.
C36_Witness ==
    /\ \A t \in Workers : pcPool[t] = "idle"
    /\ pcPool[Watcher] = "hold"
    /\ conn_semaphore = PoolSize - 1
    /\ \E t \in Workers : scan_i[t] > 1

\* C33: for each record event update_record calls dns_zone_load at most
\* once and goes back to update_restart at most once, the load follows a
\* DNS_R_NOTLOADED or DNS_R_BADZONE result only, a restart follows a load,
\* and every started call reaches its return.
C33_ReloadOnceAndTerminates ==
    /\ [](/\ ur.loads <= 1
          /\ ur.restarts <= ur.loads
          /\ ur.passes <= 1 + ur.restarts
          /\ ur.loads > 0 => ur.cause \in {"DNS_R_NOTLOADED", "DNS_R_BADZONE"}
          /\ ur.pc = "reload" =>
                ur.cause \in {"DNS_R_NOTLOADED", "DNS_R_BADZONE"})
    /\ (ur.pc # "none") ~> (ur.pc = "none")

\* The body ran a second time after a successful reload and ended with
\* DNS_R_NOTLOADED again; the handler went to its end without a second
\* reload.
C33_Witness ==
    /\ ur.pc = "signal"
    /\ ur.restarts = 1
    /\ ur.passes = 2
    /\ ur.zone_reloaded
    /\ ur.result = "DNS_R_NOTLOADED"

\* C37: every wait on the concurrency-cap semaphore is matched by exactly
\* one signal on every path: the permits left and the events in flight
\* (queued, or in a handler that has not ended) always make the cap, so
\* no permit is lost or given back twice and the events in flight never
\* exceed the cap.
C37_PermitsBalanced ==
    /\ concurr_limit \in 0..ConcurrLimit
    /\ concurr_limit + events_in_flight = ConcurrLimit

\* C34 (as stated): when the persistent search has returned or the poll has
\* failed while the instance is not exiting, the watcher comes back to the
\* wait for a bound connection with the sync state and the zone files on
\* disk as they were: no second reset to init, no second removal.
C34_ResumeAtStep3 ==
    [][(wthread.pc = "loop" /\ wthread'.pc = "prepare"
           /\ wthread.prepares >= 1)
         => (/\ wthread'.sync_state = wthread.sync_state
             /\ wthread'.files = wthread.files)]_vars

\* C34 (amended): the watcher restarts at step 1: every pass of its loop
\* that is not ended by exiting calls ldap_sync_prepare, which sets the
\* sync state to init and removes the zone files again before it waits
\* for a bound connection; the search is opened on a bound connection.
C34_RestartAtStep1 ==
    [][/\ (wthread.pc = "loop" /\ wthread'.pc = "prepare")
            => (/\ wthread'.sync_state = "init"
                /\ ~wthread'.files
                /\ wthread'.prepares >= 1)
       /\ (wthread.pc = "prepare" /\ wthread'.pc = "poll_test")
            => wthread.handle = "bound"]_vars

\* The watcher is in its second ldap_sync_prepare after a failed poll (the
\* handle was cleared), the sync state it had brought to finished is init
\* again and the files a handler had written are gone.
C34_Witness ==
    /\ wthread.pc = "prepare"
    /\ wthread.prepares = 2
    /\ wthread.handle = "null"
    /\ wthread.ndisp >= 2
    /\ wthread.sync_state = "init"
    /\ ~wthread.files
    /\ ~destroy.exiting

====
